---- MODULE Spec2Model ----
(***************************************************************************)
(* seppolang: the compiler pipeline parse_seppo -> CodeGen::compile ->     *)
(* write_object_file -> link_object_file, the IR that CodeGen::gen_expr    *)
(* emits for an AST, and the behaviour of that IR when it runs.            *)
(*                                                                         *)
(* Machine integers are modelled at reduced width: the i64 type has        *)
(* IntBits bits, the i32 type of `main` has MainBits bits and the process  *)
(* exit status has ExitBits bits.  All arithmetic is written in terms of   *)
(* these widths.                                                           *)
(***************************************************************************)
EXTENDS Integers, Sequences, FiniteSets, TLC

VARIABLES source, cc_env, pc, expr, cg, error, files, link_cmd, run

vars == <<source, cc_env, pc, expr, cg, error, files, link_cmd, run>>

(***************************************************************************)
(* Bounds                                                                  *)
(***************************************************************************)
IntBits == 4

MainBits == 3

ExitBits == 2

MaxCodeLen == 5

MaxCallDepth == 3

(***************************************************************************)
(* Integer helpers                                                         *)
(***************************************************************************)
RECURSIVE Pow2(_)
Pow2(n) == IF n = 0 THEN 1 ELSE 2 * Pow2(n - 1)

IntMin == 0 - Pow2(IntBits - 1)

IntMax == Pow2(IntBits - 1) - 1

I64 == IntMin..IntMax

\* the signed value of v reduced to `bits` bits (two's complement)
WrapTo(v, bits) == ((v + Pow2(bits - 1)) % Pow2(bits)) - Pow2(bits - 1)

Wrap(v) == WrapTo(v, IntBits)

Abs(v) == IF v < 0 THEN 0 - v ELSE v

\* quotient rounded toward zero
TruncDiv(a, b) ==
    IF (a < 0) = (b < 0) THEN Abs(a) \div Abs(b) ELSE 0 - (Abs(a) \div Abs(b))

Last(s) == s[Len(s)]

Get(m, k) == IF k \in DOMAIN m THEN m[k] ELSE 0

Put(m, k, v) == [x \in (DOMAIN m) \cup {k} |-> IF x = k THEN v ELSE m[x]]

EmptyMap == [x \in {} |-> 0]

(***************************************************************************)
(* types.rs: SeppoExpr                                                     *)
(***************************************************************************)
Number(n) == [t |-> "Number", n |-> n]

String(s) == [t |-> "String", s |-> s]

Variable(name) == [t |-> "Variable", name |-> name]

Operation(op, left, right) == [t |-> "Operation", op |-> op, left |-> left, right |-> right]

Assignment(name, value) == [t |-> "Assignment", name |-> name, value |-> value]

PrintStmt(format, e) == [t |-> "Print", format |-> format, value |-> e]

Block(expressions) == [t |-> "Block", items |-> expressions]

Function(name, params, body) == [t |-> "Function", name |-> name, params |-> params, body |-> body]

FunctionCall(name, args) == [t |-> "FunctionCall", name |-> name, args |-> args]

Return(value) == [t |-> "Return", value |-> value]

InlineC(code) == [t |-> "InlineC", code |-> code]

NoBlock == [t |-> "None"]

Conditional(condition, true_block, false_block) ==
    [t |-> "Conditional", condition |-> condition,
     true_block |-> true_block, false_block |-> false_block]

(***************************************************************************)
(* IR values and instructions (inkwell IntValue / PointerValue)            *)
(***************************************************************************)
Const(n) == [k |-> "const", n |-> n]

Reg(i) == [k |-> "reg", n |-> i]

Arg(i) == [k |-> "arg", n |-> i]

Terminators == {"ret", "br", "condbr"}

\* BasicBlock::get_terminator: the last instruction, if it is a terminator
get_terminator(c, b) ==
    IF Len(c.blocks[b].instrs) > 0 /\ Last(c.blocks[b].instrs).op \in Terminators
    THEN Last(c.blocks[b].instrs)
    ELSE [op |-> "none"]

has_terminator(c, b) == get_terminator(c, b).op # "none"

Ok(c) == c.err = ""

Fail(c, msg) == [c EXCEPT !.err = msg]

\* Builder::build_*: append at the insertion point; an unpositioned builder
\* returns BuilderError::UnsetPosition
emit(c, ins) ==
    IF c.pos = 0 THEN Fail(c, "UnsetPosition")
    ELSE [c EXCEPT !.blocks[c.pos].instrs = Append(@, ins)]

\* an instruction that produces a value: takes the next value id
emit_val(c, ins) ==
    IF c.pos = 0 THEN Fail(c, "UnsetPosition")
    ELSE [c EXCEPT !.blocks[c.pos].instrs = Append(@, [ins EXCEPT !.id = c.next_id]),
                   !.next_id = @ + 1,
                   !.val = Reg(c.next_id)]

\* Context::append_basic_block
append_basic_block(c, fn, label) ==
    [c EXCEPT !.blocks = Append(@, [fn |-> fn, label |-> label, instrs |-> <<>>])]

\* Module::get_function: the function whose symbol is exactly `name`, or 0
get_function(c, name) ==
    IF \E i \in 1..Len(c.module) : c.module[i].name = name
    THEN CHOOSE i \in 1..Len(c.module) : c.module[i].name = name
    ELSE 0

\* Module::add_function: a symbol that is already taken is made unique by
\* the module's symbol table (name.N)
add_function(c, name, nparams, ret, linkage) ==
    LET taken == name # "" /\ get_function(c, name) # 0
        sym == IF taken THEN name \o "." \o ToString(c.uniq + 1) ELSE name
    IN [c EXCEPT !.module = Append(@, [name |-> sym, nparams |-> nparams,
                                       ret |-> ret, linkage |-> linkage]),
                 !.uniq = IF taken THEN @ + 1 ELSE @]

\* CodeGen::new
CodeGenNew ==
    [module |-> <<[name |-> "printf", nparams |-> 1, ret |-> "i32", linkage |-> "declare"]>>,
     blocks |-> <<>>,
     pos |-> 0,
     variables |-> EmptyMap,
     functions |-> EmptyMap,
     current_function |-> 0,
     c_object_files |-> <<>>,
     next_id |-> 1,
     uniq |-> 0,
     val |-> Const(0),
     err |-> "",
     fs |-> {},
     cc |-> <<>>,
     ncc |-> 0,
     merged_vars |-> EmptyMap,
     exports |-> EmptyMap,
     lookups |-> <<>>,
     calls |-> <<>>,
     assigns |-> <<>>,
     defs |-> <<>>]


(***************************************************************************)
(* CodeGen::gen_expr                                                       *)
(***************************************************************************)
RECURSIVE SetToSeq(_)
SetToSeq(S) ==
    IF S = {} THEN <<>>
    ELSE LET x == CHOOSE y \in S : TRUE IN <<x>> \o SetToSeq(S \ {x})

RECURSIVE Cat(_)
Cat(s) == IF s = <<>> THEN "" ELSE Head(s) \o Cat(Tail(s))

is_whitespace(ch) == ch = " "

\* str::find from index `from` (1-based, inclusive); 0 when absent
Find(s, from, ch) ==
    IF \E i \in from..Len(s) : s[i] = ch
    THEN CHOOSE i \in from..Len(s) : s[i] = ch /\ \A j \in from..(i - 1) : s[j] # ch
    ELSE 0

\* str::rfind(char::is_whitespace) in s[1..upto]; 0 when absent
RFindWhitespace(s, upto) ==
    IF \E i \in 1..upto : is_whitespace(s[i])
    THEN CHOOSE i \in 1..upto : is_whitespace(s[i]) /\ \A j \in (i + 1)..upto : ~is_whitespace(s[j])
    ELSE 0

RECURSIVE TrimStart(_)
TrimStart(s) == IF s # <<>> /\ is_whitespace(Head(s)) THEN TrimStart(Tail(s)) ELSE s

RECURSIVE TrimEnd(_)
TrimEnd(s) ==
    IF s # <<>> /\ is_whitespace(Last(s)) THEN TrimEnd(SubSeq(s, 1, Len(s) - 1)) ELSE s

\* str::trim
Trim(s) == TrimEnd(TrimStart(s))

SplitCount_commas(s) == Cardinality({i \in 1..Len(s) : s[i] = ","})

\* params.split(',').count()
SplitCount(s) == Cardinality({i \in 1..Len(s) : s[i] = ","}) + 1

\* self.functions.insert(name, function)
register_function(c, name, function) == [c EXCEPT !.functions = Put(@, name, function)]

\* the declaration scan of one foreign block, from offset pos (0-based as in
\* the source: code[pos..] is SubSeq(code, pos + 1, Len(code)))
RECURSIVE scan_declarations(_, _, _)
scan_declarations(c, code, pos) ==
    LET found == Find(code, pos + 1, "(")
    IN IF found = 0 THEN c
       ELSE LET start_pos == found - 1
                name_start == RFindWhitespace(code, start_pos)
                params_end == Find(code, found, ")")
                func_name == Cat(Trim(SubSeq(code, name_start + 1, start_pos)))
                params == Trim(SubSeq(code, found + 1, params_end - 1))
                param_count == IF params = <<>> THEN 0 ELSE SplitCount(params)
                c1 == add_function(c, func_name, param_count, "i64", "declare")
                c2 == register_function(c1, func_name, Len(c1.module))
            IN scan_declarations(IF name_start # 0 /\ params_end # 0 THEN c2 ELSE c,
                                 code, start_pos + 1)

\* the scratch directory of the n-th foreign block of the run and its files
TempDir(n) == "tmp/seppolang_extern_" \o ToString(n)

CFile(n) == TempDir(n) \o "/inline.c"

OFile(n) == TempDir(n) \o "/inline.o"

\* what Command::output() gives for a block: whether cc could be started,
\* its exit status and what it wrote to stderr
CcOk == [spawned |-> TRUE, status |-> 0, stderr |-> ""]

\* the output of cc for the block being compiled (c.cc[k] for the k-th block)
cc_output(c1) == IF c1.ncc \in DOMAIN c1.cc THEN c1.cc[c1.ncc] ELSE CcOk

\* SeppoExpr::InlineC, cc succeeded: remove inline.c, keep the object file,
\* scan the text for declarations
InlineC_keep(c1, e) ==
    LET c2 == [c1 EXCEPT !.fs = (@ \cup {OFile(c1.ncc)}) \ {CFile(c1.ncc)},
                         !.c_object_files = Append(@, OFile(c1.ncc))]
        c3 == scan_declarations(c2, Trim(e.code), 0)
        declared == {c3.module[i].name : i \in (Len(c1.module) + 1)..Len(c3.module)}
    IN [c3 EXCEPT !.val = Const(0), !.exports = Put(@, OFile(c1.ncc), declared)]

InlineC_cc_keeps(c1, e) ==
    IF ~cc_output(c1).spawned THEN Fail(c1, cc_output(c1).stderr)
    ELSE IF cc_output(c1).status # 0
         THEN Fail(InlineC_keep(c1, e), "Failed to compile C code: " \o cc_output(c1).stderr)
    ELSE InlineC_keep(c1, e)

\* SeppoExpr::InlineC, the cc subprocess: an error of the spawn or a non-zero
\* exit ends the compilation
InlineC_cc(c1, e) ==
    IF ~cc_output(c1).spawned THEN Fail(c1, cc_output(c1).stderr)
    ELSE IF cc_output(c1).status # 0
         THEN Fail(c1, "Failed to compile C code: " \o cc_output(c1).stderr)
    ELSE InlineC_keep(c1, e)

\* SeppoExpr::InlineC: make the scratch directory, write inline.c, run cc
gen_InlineC(c, e) ==
    InlineC_cc([c EXCEPT !.ncc = @ + 1,
                         !.fs = @ \cup {TempDir(c.ncc + 1), CFile(c.ncc + 1)}], e)

RECURSIVE gen_expr(_, _)
RECURSIVE gen_block(_, _, _)
RECURSIVE gen_block_all(_, _, _)
RECURSIVE gen_args(_, _, _, _)

gen_Variable_lenient(c, e) ==
    LET c1 == [c EXCEPT !.lookups = Append(@, [name |-> e.name, scope |-> DOMAIN c.variables])]
    IN IF e.name \in DOMAIN c.variables
       THEN emit_val(c1, [op |-> "load", id |-> 0, ptr |-> c.variables[e.name]])
       ELSE [c1 EXCEPT !.val = Const(0)]

\* SeppoExpr::Variable
\* (lookups is a history of the names looked up and the scope at that point)
gen_Variable(c, e) ==
    LET c1 == [c EXCEPT !.lookups = Append(@, [name |-> e.name, scope |-> DOMAIN c.variables])]
    IN IF e.name \in DOMAIN c.variables
       THEN emit_val(c1, [op |-> "load", id |-> 0, ptr |-> c.variables[e.name]])
       ELSE Fail(c1, "Undefined variable: " \o e.name)

RECURSIVE gen_params(_, _, _)
RECURSIVE gen_params_reversed(_, _, _)
gen_params_reversed(c, params, i) ==
    IF i > Len(params) \/ ~Ok(c) THEN c
    ELSE LET c1 == emit_val(c, [op |-> "alloca", id |-> 0, name |-> params[i]])
             c2 == emit(c1, [op |-> "store", ptr |-> c1.val.n, val |-> Arg(Len(params) + 1 - i)])
         IN gen_params_reversed([c2 EXCEPT !.variables = Put(@, params[i], c1.val.n)],
                                params, i + 1)

\* the parameter loop of SeppoExpr::Function
gen_params(c, params, i) ==
    IF i > Len(params) \/ ~Ok(c) THEN c
    ELSE LET c1 == emit_val(c, [op |-> "alloca", id |-> 0, name |-> params[i]])
             c2 == emit(c1, [op |-> "store", ptr |-> c1.val.n, val |-> Arg(i)])
         IN gen_params([c2 EXCEPT !.variables = Put(@, params[i], c1.val.n)], params, i + 1)

Function_open_unregistered(c1, e) ==
    LET function == Len(c1.module)
        c2 == append_basic_block(c1, function, "entry")
    IN [c2 EXCEPT !.pos = Len(c2.blocks),
                  !.current_function = function,
                  !.variables = EmptyMap]

\* SeppoExpr::Function, after add_function: enter the name in the function
\* symbol table, open the entry block, start with an empty scope
Function_open(c1, e) ==
    LET function == Len(c1.module)
        c2 == append_basic_block(register_function(c1, e.name, function), function, "entry")
    IN [c2 EXCEPT !.pos = Len(c2.blocks),
                  !.current_function = function,
                  !.variables = EmptyMap]

\* SeppoExpr::Function, after the body: the default `ret 0`, then the scope
\* and the current function of the caller are put back
Function_close_last(c4, prev_function, prev_vars) ==
    IF ~Ok(c4) THEN c4
    ELSE [(IF has_terminator(c4, c4.pos) THEN c4
           ELSE emit(c4, [op |-> "ret", val |-> c4.val]))
             EXCEPT !.variables = prev_vars,
                    !.current_function = prev_function,
                    !.val = Const(0)]

Function_close(c4, prev_function, prev_vars) ==
    IF ~Ok(c4) THEN c4
    ELSE [(IF has_terminator(c4, c4.pos) THEN c4
           ELSE emit(c4, [op |-> "ret", val |-> Const(0)]))
             EXCEPT !.variables = prev_vars,
                    !.current_function = prev_function,
                    !.val = Const(0)]

Function_body(c3, e, prev_function, prev_vars) ==
    IF ~Ok(c3) THEN c3
    ELSE Function_close(gen_expr(c3, e.body), prev_function, prev_vars)

\* the state a Function is to leave as it was: the variable map, the
\* current function and the insertion point
BuilderState(c) == [variables |-> c.variables, current_function |-> c.current_function, pos |-> c.pos]

\* (defs is a history of the Functions compiled to completion: the frame
\* before the Function, the frame at the start of its body, the frame after)
Function_defined(c, c3, c5, e) ==
    IF ~Ok(c5) THEN c5
    ELSE [c5 EXCEPT !.defs = Append(@, [name |-> e.name, params |-> e.params,
                                        before |-> BuilderState(c), body |-> BuilderState(c3),
                                        after |-> BuilderState(c5)])]

Function_scope_kept(c, c3, e) ==
    Function_defined(c, c3, Function_body(c3, e, c3.current_function, c3.variables), e)

\* SeppoExpr::Function, the parameters stored: body, default return, restore
Function_scope(c, c3, e) ==
    Function_defined(c, c3, Function_body(c3, e, c.current_function, c.variables), e)

\* SeppoExpr::Function
gen_Function(c, e) ==
    Function_scope(c,
        gen_params(Function_open(add_function(c, e.name, Len(e.params), "i64", "define"), e),
                   e.params, 1),
        e)

\* the argument list of a call, left to right; acc collects the values
gen_args(c, args, i, acc) ==
    IF i > Len(args) THEN [c EXCEPT !.val = acc]
    ELSE LET c1 == gen_expr(c, args[i])
         IN IF ~Ok(c1) THEN c1 ELSE gen_args(c1, args, i + 1, Append(acc, c1.val))

gen_FunctionCall_mapped(c0, e) ==
    LET c == [c0 EXCEPT !.calls = Append(@, [name |-> e.name, known |-> DOMAIN c0.functions,
                                             caller |-> c0.current_function])]
    IN
    IF e.name \in DOMAIN c.functions
    THEN LET c1 == gen_args(c, e.args, 1, <<>>)
         IN IF ~Ok(c1) THEN c1
            ELSE emit_val(c1, [op |-> "call", id |-> 0, fn |-> c.functions[e.name],
                               args |-> c1.val])
    ELSE Fail(c, "Undefined function: " \o e.name)

\* SeppoExpr::FunctionCall
\* (calls is a history of the names called, the function symbol table at
\* that point and the function being compiled)
gen_FunctionCall(c0, e) ==
    LET c == [c0 EXCEPT !.calls = Append(@, [name |-> e.name, known |-> DOMAIN c0.functions,
                                             caller |-> c0.current_function])]
    IN
    IF e.name \in DOMAIN c.functions
    THEN LET function == c.functions[e.name]
             c1 == gen_args(c, e.args, 1, <<>>)
             named == get_function(c1, e.name)
             callee == IF named # 0 THEN named ELSE function
         IN IF ~Ok(c1) THEN c1
            ELSE emit_val(c1, [op |-> "call", id |-> 0, fn |-> callee, args |-> c1.val])
    ELSE Fail(c, "Undefined function: " \o e.name)

\* SeppoExpr::Return
gen_Return(c, e) ==
    LET c1 == gen_expr(c, e.value)
        return_value == c1.val
    IN IF ~Ok(c1) THEN c1
       ELSE IF c1.current_function # 0
            THEN [emit(c1, [op |-> "ret", val |-> return_value]) EXCEPT !.val = return_value]
            ELSE Fail(c1, "Return statement outside of function")

ArithOps == {"+", "-", "*", "/"}

CmpOps == {">", "<", ">=", "<=", "==", "!="}

ArithOpcode_add(op) ==
    CASE op = "+" -> "add" [] op = "-" -> "add" [] op = "*" -> "mul" [] op = "/" -> "sdiv"

ArithOpcode(op) ==
    CASE op = "+" -> "add" [] op = "-" -> "sub" [] op = "*" -> "mul" [] op = "/" -> "sdiv"

CmpPredicate_strict(op) ==
    CASE op = ">" -> "sgt" [] op = "<" -> "slt" [] op = ">=" -> "sgt"
      [] op = "<=" -> "sle" [] op = "==" -> "eq" [] op = "!=" -> "ne"

CmpPredicate(op) ==
    CASE op = ">" -> "sgt" [] op = "<" -> "slt" [] op = ">=" -> "sge"
      [] op = "<=" -> "sle" [] op = "==" -> "eq" [] op = "!=" -> "ne"

\* SeppoExpr::Operation, both operands compiled
Operation_build(c2, e, lhs, rhs) ==
    IF ~Ok(c2) THEN c2
    ELSE IF e.op \in ArithOps
         THEN emit_val(c2, [op |-> ArithOpcode(e.op), id |-> 0, lhs |-> lhs, rhs |-> rhs])
    ELSE IF e.op \in CmpOps
         THEN LET c3 == emit_val(c2, [op |-> "icmp", pred |-> CmpPredicate(e.op),
                                      id |-> 0, lhs |-> lhs, rhs |-> rhs])
              IN IF ~Ok(c3) THEN c3
                 ELSE emit_val(c3, [op |-> "zext", id |-> 0, val |-> c3.val])
    ELSE Fail(c2, "Unknown operator: " \o e.op)

Operation_right(c1, e) ==
    IF ~Ok(c1) THEN c1
    ELSE LET c2 == gen_expr(c1, e.right)
         IN Operation_build(c2, e, c1.val, c2.val)

\* SeppoExpr::Operation
gen_Operation(c, e) == Operation_right(gen_expr(c, e.left), e)

\* build_store(alloca, val); Ok(val)
\* (assigns is a history: the variable map before and after the Assignment,
\* the slots it allocated, where its store is and the value it resulted in)
Assignment_build_store(c1, c2, e) ==
    LET c3 == emit(c2, [op |-> "store", ptr |-> c2.variables[e.name], val |-> c1.val])
    IN IF ~Ok(c3) THEN c3
       ELSE [c3 EXCEPT !.val = c1.val,
                       !.assigns = Append(@, [name |-> e.name,
                                              before |-> c1.variables,
                                              after |-> c3.variables,
                                              allocated |-> c3.next_id - c1.next_id,
                                              val |-> c1.val,
                                              block |-> c3.pos,
                                              index |-> Len(c3.blocks[c3.pos].instrs),
                                              result |-> c1.val])]

\* build_alloca(i64, name); variables.insert(name, alloca)
Assignment_alloca(c1, e) ==
    LET c2 == emit_val(c1, [op |-> "alloca", id |-> 0, name |-> e.name])
    IN IF ~Ok(c2) THEN c2
       ELSE Assignment_build_store(c1, [c2 EXCEPT !.variables = Put(@, e.name, c2.val.n)], e)

Assignment_store_fresh(c1, e) ==
    IF ~Ok(c1) THEN c1 ELSE Assignment_alloca(c1, e)

\* SeppoExpr::Assignment, the value compiled: reuse the slot of a bound name,
\* allocate one for a new name, store
Assignment_store(c1, e) ==
    IF ~Ok(c1) THEN c1
    ELSE IF e.name \in DOMAIN c1.variables
         THEN Assignment_build_store(c1, c1, e)
    ELSE Assignment_alloca(c1, e)

\* SeppoExpr::Assignment
gen_Assignment(c, e) == Assignment_store(gen_expr(c, e.value), e)

\* SeppoExpr::Print
gen_Print(c, e) ==
    LET c1 == gen_expr(c, e.value)
        value == c1.val
        printf == get_function(c1, "printf")
        format_string == IF e.format = "Hex" THEN "0x%lx\n" ELSE "%ld\n"
        c2 == emit_val(c1, [op |-> "call", id |-> 0, fn |-> printf,
                            args |-> <<[k |-> "gstr", n |-> 0, s |-> format_string], value>>])
    IN IF ~Ok(c1) THEN c1
       ELSE IF c1.pos = 0 THEN Fail(c1, "UnsetPosition")
       ELSE [c2 EXCEPT !.val = value]

\* SeppoExpr::String
gen_String(c, e) ==
    IF c.pos = 0 THEN Fail(c, "UnsetPosition")
    ELSE emit_val(c, [op |-> "ptrtoint", id |-> 0, s |-> e.s])

gen_block_all(c, items, i) ==
    IF i > Len(items) THEN c
    ELSE LET c1 == gen_expr(c, items[i])
         IN IF ~Ok(c1) THEN c1
            ELSE gen_block_all(c1, items, i + 1)

\* SeppoExpr::Block: items in order, stopping after an item that is a Return
gen_block(c, items, i) ==
    IF i > Len(items) THEN c
    ELSE LET c1 == gen_expr(c, items[i])
         IN IF ~Ok(c1) THEN c1
            ELSE IF items[i].t = "Return" THEN c1
            ELSE gen_block(c1, items, i + 1)


is_return(ins) == ins.op = "ret"

\* build_int_compare(NE, cond_value, zero): the condition as a boolean
cond_compare(cond_value) ==
    [op |-> "icmp", pred |-> "ne", id |-> 0, lhs |-> cond_value, rhs |-> Const(0)]

cond_branch_swapped(cond_bool, then_bb, else_bb) ==
    [op |-> "condbr", cond |-> cond_bool, then |-> else_bb, else |-> then_bb]

\* build_conditional_branch(cond_bool, then_bb, else_bb)
cond_branch(cond_bool, then_bb, else_bb) ==
    [op |-> "condbr", cond |-> cond_bool, then |-> then_bb, else |-> else_bb]

\* One pass of the per-variable phi loop of SeppoExpr::Conditional.
\* p = [var_name, phi_at, phi, incoming] is the phi being built; x holds the
\* locals of the Conditional.
var_phi_store(c3, p, x) ==
    IF p.incoming = <<>> THEN c3
    ELSE LET c4 == [c3 EXCEPT !.blocks[c3.pos].instrs[p.phi_at].incoming = p.incoming]
         IN IF p.var_name \in DOMAIN x.entry_vars
            THEN [emit(c4, [op |-> "store", ptr |-> x.entry_vars[p.var_name], val |-> p.phi])
                     EXCEPT !.merged_vars = Put(@, p.var_name, x.entry_vars[p.var_name])]
            ELSE c4

var_phi_else(c2, p, x) ==
    IF p.var_name \in DOMAIN x.else_vars /\ ~is_return(get_terminator(c2, x.else_block))
    THEN LET c3 == emit_val(c2, [op |-> "load", id |-> 0, ptr |-> x.else_vars[p.var_name]])
         IN var_phi_store(c3, [p EXCEPT !.incoming =
                                   Append(@, [val |-> c3.val, block |-> x.else_block])], x)
    ELSE var_phi_store(c2, p, x)

var_phi_then(c1, p, x) ==
    IF p.var_name \in DOMAIN x.then_vars /\ ~is_return(get_terminator(c1, x.then_block))
    THEN LET c2 == emit_val(c1, [op |-> "load", id |-> 0, ptr |-> x.then_vars[p.var_name]])
         IN var_phi_else(c2, [p EXCEPT !.incoming =
                                  <<[val |-> c2.val, block |-> x.then_block]>>], x)
    ELSE var_phi_else(c1, p, x)

gen_var_phi(c, var_name, x) ==
    LET c1 == emit_val(c, [op |-> "phi", id |-> 0, name |-> var_name, incoming |-> <<>>])
    IN var_phi_then(c1, [var_name |-> var_name,
                         phi_at |-> Len(c.blocks[c.pos].instrs) + 1,
                         phi |-> c1.val,
                         incoming |-> <<>>], x)

\* the per-variable phi loop of SeppoExpr::Conditional, over names[i..]
RECURSIVE gen_var_phis(_, _, _, _)
gen_var_phis(c, names, i, x) ==
    IF i > Len(names) \/ ~Ok(c) THEN c
    ELSE gen_var_phis(gen_var_phi(c, names[i], x), names, i + 1, x)

Conditional_merge_val_both(c11, x) ==
    LET c12 == emit_val(c11, [op |-> "phi", id |-> 0, name |-> "merge_val", incoming |-> <<>>])
        incoming == <<[val |-> x.then_val, block |-> x.then_block],
                      [val |-> x.else_val, block |-> x.else_block]>>
    IN [c12 EXCEPT !.blocks[x.merge_bb].instrs[Len(c11.blocks[x.merge_bb].instrs) + 1].incoming
                       = incoming,
                   !.val = c12.val]

\* SeppoExpr::Conditional, the phi of the value of the Conditional
Conditional_merge_val(c11, x) ==
    LET c12 == emit_val(c11, [op |-> "phi", id |-> 0, name |-> "merge_val", incoming |-> <<>>])
        incoming ==
            (IF ~is_return(get_terminator(c12, x.then_block))
             THEN <<[val |-> x.then_val, block |-> x.then_block]>> ELSE <<>>)
            \o (IF ~is_return(get_terminator(c12, x.else_block))
                THEN <<[val |-> x.else_val, block |-> x.else_block]>> ELSE <<>>)
    IN IF incoming # <<>>
       THEN [c12 EXCEPT !.blocks[x.merge_bb].instrs[Len(c11.blocks[x.merge_bb].instrs) + 1].incoming
                            = incoming,
                        !.val = c12.val]
       ELSE [c12 EXCEPT !.val = Const(0)]

\* SeppoExpr::Conditional, after the phi loop: the scope becomes the scope at
\* entry, with the merged names on top
Conditional_scope(c10, x) ==
    IF ~Ok(c10) THEN c10
    ELSE Conditional_merge_val(
             [c10 EXCEPT !.variables =
                     [k \in (DOMAIN x.entry_vars) \cup (DOMAIN c10.merged_vars) |->
                         IF k \in DOMAIN c10.merged_vars THEN c10.merged_vars[k]
                         ELSE x.entry_vars[k]],
                         !.merged_vars = EmptyMap], x)

\* SeppoExpr::Conditional, the merge block: a phi for every name whose slot
\* in a branch differs from its slot at entry
Conditional_merge(c9, x) ==
    LET all_vars == {k \in (DOMAIN x.then_vars) \cup (DOMAIN x.else_vars) :
                        \/ Get(x.then_vars, k) # Get(x.entry_vars, k)
                        \/ Get(x.else_vars, k) # Get(x.entry_vars, k)}
    IN Conditional_scope(gen_var_phis([c9 EXCEPT !.pos = x.merge_bb, !.merged_vars = EmptyMap],
                                      SetToSeq(all_vars), 1, x), x)

Conditional_else_end(c8, x) ==
    IF ~Ok(c8) THEN c8
    ELSE Conditional_merge(IF has_terminator(c8, c8.pos) THEN c8
                           ELSE emit(c8, [op |-> "br", dest |-> x.merge_bb]),
                           [x EXCEPT !.else_val = c8.val,
                                     !.else_block = c8.pos,
                                     !.else_vars = c8.variables])

Conditional_else_inherits(c6, e, x) ==
    LET c7 == [c6 EXCEPT !.pos = x.else_bb]
    IN Conditional_else_end(IF e.false_block.t # "None" THEN gen_expr(c7, e.false_block)
                            ELSE [c7 EXCEPT !.val = Const(0)], x)

\* SeppoExpr::Conditional, the else block, from the scope at entry
Conditional_else(c6, e, x) ==
    LET c7 == [c6 EXCEPT !.variables = x.entry_vars, !.pos = x.else_bb]
    IN Conditional_else_end(IF e.false_block.t # "None" THEN gen_expr(c7, e.false_block)
                            ELSE [c7 EXCEPT !.val = Const(0)], x)

Conditional_then_end(c5, e, x) ==
    IF ~Ok(c5) THEN c5
    ELSE Conditional_else(IF has_terminator(c5, c5.pos) THEN c5
                          ELSE emit(c5, [op |-> "br", dest |-> x.merge_bb]),
                          e,
                          [x EXCEPT !.then_val = c5.val,
                                    !.then_block = c5.pos,
                                    !.then_vars = c5.variables])

\* SeppoExpr::Conditional, the three blocks, the branch and the then block
Conditional_then(c2, e, current_fn) ==
    LET then_bb == Len(c2.blocks) + 1
        else_bb == Len(c2.blocks) + 2
        merge_bb == Len(c2.blocks) + 3
        c3 == append_basic_block(append_basic_block(append_basic_block(
                  c2, current_fn, "then"), current_fn, "else"), current_fn, "merge")
        c4 == emit(c3, cond_branch(c2.val, then_bb, else_bb))
    IN Conditional_then_end(
           gen_expr([c4 EXCEPT !.pos = then_bb], e.true_block), e,
           [entry_vars |-> c2.variables, else_bb |-> else_bb, merge_bb |-> merge_bb,
            then_val |-> Const(0), then_block |-> 0, then_vars |-> EmptyMap,
            else_val |-> Const(0), else_block |-> 0, else_vars |-> EmptyMap])

Conditional_cond(c1, e, current_fn) ==
    IF ~Ok(c1) THEN c1
    ELSE Conditional_then(emit_val(c1, cond_compare(c1.val)), e, current_fn)

\* SeppoExpr::Conditional
gen_Conditional(c, e) ==
    IF c.current_function = 0 THEN Fail(c, "Conditional block outside of function")
    ELSE Conditional_cond(gen_expr(c, e.condition), e, c.current_function)

gen_expr(c, e) ==
    CASE e.t = "Number" -> [c EXCEPT !.val = Const(e.n)]
      [] e.t = "Variable" -> gen_Variable(c, e)
      [] e.t = "Function" -> gen_Function(c, e)
      [] e.t = "FunctionCall" -> gen_FunctionCall(c, e)
      [] e.t = "Return" -> gen_Return(c, e)
      [] e.t = "Operation" -> gen_Operation(c, e)
      [] e.t = "Assignment" -> gen_Assignment(c, e)
      [] e.t = "Print" -> gen_Print(c, e)
      [] e.t = "Block" -> gen_block([c EXCEPT !.val = Const(0)], e.items, 1)
      [] e.t = "InlineC" -> gen_InlineC(c, e)
      [] e.t = "String" -> gen_String(c, e)
      [] e.t = "Conditional" -> gen_Conditional(c, e)


(***************************************************************************)
(* Module::verify (the IR consistency check of the backend)                *)
(***************************************************************************)
BlocksOf(c, f) == {b \in 1..Len(c.blocks) : c.blocks[b].fn = f}

EntryBlock(c, f) == CHOOSE b \in BlocksOf(c, f) : \A b2 \in BlocksOf(c, f) : b <= b2

Successors(c, b) ==
    LET t == get_terminator(c, b)
    IN CASE t.op = "br" -> {t.dest}
         [] t.op = "condbr" -> {t.then, t.else}
         [] OTHER -> {}

Predecessors(c, b) == {p \in 1..Len(c.blocks) : b \in Successors(c, p)}

\* blocks reachable from the blocks of `frontier` without entering `avoid`
RECURSIVE Reachable(_, _, _, _)
Reachable(c, frontier, seen, avoid) ==
    LET new == (frontier \ seen) \ avoid
    IN IF new = {} THEN seen
       ELSE Reachable(c, UNION {Successors(c, b) : b \in new}, seen \cup new, avoid)

\* block d dominates block b in function f (every block dominates an
\* unreachable one)
Dominates(c, f, d, b) ==
    d = b \/ b \notin Reachable(c, {EntryBlock(c, f)}, {}, {d})

\* the operands of an instruction that are instruction results
Operands(ins) ==
    CASE ins.op \in {"add", "sub", "mul", "sdiv", "icmp"} -> {ins.lhs, ins.rhs}
      [] ins.op \in {"zext", "trunc", "ret"} -> {ins.val}
      [] ins.op = "store" -> {ins.val, Reg(ins.ptr)}
      [] ins.op = "load" -> {Reg(ins.ptr)}
      [] ins.op = "call" -> {ins.args[i] : i \in 1..Len(ins.args)}
      [] ins.op = "condbr" -> {ins.cond}
      [] OTHER -> {}

Produces(ins) ==
    ins.op \in {"alloca", "load", "add", "sub", "mul", "sdiv", "icmp", "zext", "trunc",
                "call", "phi", "ptrtoint"}

AllSites(c) ==
    UNION {{<<b, i>> : i \in 1..Len(c.blocks[b].instrs)} : b \in 1..Len(c.blocks)}

InstrAt(c, site) == c.blocks[site[1]].instrs[site[2]]

\* where the value `id` is defined: <<block, index>>, or <<0, 0>>
DefSite(c, id) ==
    LET sites == {x \in AllSites(c) : Produces(InstrAt(c, x)) /\ InstrAt(c, x).id = id}
    IN IF sites = {} THEN <<0, 0>> ELSE CHOOSE x \in sites : TRUE

TypeOf(c, o) ==
    IF o.k # "reg" \/ DefSite(c, o.n) = <<0, 0>> THEN "i64"
    ELSE LET ins == InstrAt(c, DefSite(c, o.n))
         IN CASE ins.op = "icmp" -> "i1"
              [] ins.op = "trunc" -> "i32"
              [] ins.op = "call" -> c.module[ins.fn].ret
              [] ins.op = "alloca" -> "ptr"
              [] OTHER -> "i64"

\* the definition of operand o is available at instruction i of block b
\* (at the end of b when i = 0)
DefDominatesUse(c, f, o, b, i) ==
    CASE o.k = "reg" ->
           LET d == DefSite(c, o.n)
           IN /\ d # <<0, 0>>
              /\ c.blocks[d[1]].fn = f
              /\ \/ b \notin Reachable(c, {EntryBlock(c, f)}, {}, {})
                 \/ IF d[1] = b THEN i = 0 \/ d[2] < i ELSE Dominates(c, f, d[1], b)
      [] o.k = "arg" -> o.n <= c.module[f].nparams
      [] OTHER -> TRUE

VerifyInstr(c, f, b, i) ==
    LET ins == c.blocks[b].instrs[i]
    IN /\ (ins.op \in Terminators) = (i = Len(c.blocks[b].instrs))
       /\ \A o \in Operands(ins) : DefDominatesUse(c, f, o, b, i)
       /\ ins.op = "phi" =>
             /\ \A j \in 1..(i - 1) : c.blocks[b].instrs[j].op = "phi"
             /\ Len(ins.incoming) = Cardinality(Predecessors(c, b))
             /\ {ins.incoming[j].block : j \in 1..Len(ins.incoming)} = Predecessors(c, b)
             /\ \A j \in 1..Len(ins.incoming) :
                   DefDominatesUse(c, f, ins.incoming[j].val, ins.incoming[j].block, 0)
       /\ ins.op = "call" =>
             IF c.module[ins.fn].name = "printf" THEN Len(ins.args) >= 1
             ELSE Len(ins.args) = c.module[ins.fn].nparams
       /\ ins.op \in {"add", "sub", "mul", "sdiv", "icmp", "trunc", "store"} =>
             \A o \in Operands(ins) \ {Reg(0)} :
                (ins.op = "store" /\ o = Reg(ins.ptr)) \/ TypeOf(c, o) = "i64"
       /\ ins.op \in {"zext", "condbr"} => \A o \in Operands(ins) : TypeOf(c, o) = "i1"
       /\ ins.op = "ret" => TypeOf(c, ins.val) = c.module[f].ret

VerifyFunction(c, f) ==
    c.module[f].linkage = "define" =>
       \A b \in BlocksOf(c, f) :
          /\ c.blocks[b].instrs # <<>>
          /\ \A i \in 1..Len(c.blocks[b].instrs) : VerifyInstr(c, f, b, i)

module_verify(c) == \A f \in 1..Len(c.module) : VerifyFunction(c, f)

(***************************************************************************)
(* CodeGen::compile                                                        *)
(***************************************************************************)
\* build_int_truncate(seppo_result, i32_type)
int_truncate_narrow(value) == [op |-> "trunc", id |-> 0, val |-> value, bits |-> ExitBits]

int_truncate(value) == [op |-> "trunc", id |-> 0, val |-> value, bits |-> MainBits]

compile_verify_skipped(c7) == c7

\* compile, the end: the module is checked
compile_verify(c7) ==
    IF ~module_verify(c7) THEN Fail(c7, "Module verification failed") ELSE c7

compile_return(c6) == compile_verify(emit(c6, [op |-> "ret", val |-> c6.val]))

compile_truncate(c5) == compile_return(emit_val(c5, int_truncate(c5.val)))

\* compile, the body of main: call seppo, truncate, return
compile_call(c4) ==
    LET seppo_fn == get_function(c4, "seppo")
    IN IF seppo_fn = 0 THEN Fail(c4, "No seppo function found")
       ELSE compile_truncate(emit_val(c4, [op |-> "call", id |-> 0, fn |-> seppo_fn,
                                           args |-> <<>>]))

compile_entry(c2) ==
    compile_call([append_basic_block(c2, Len(c2.module), "entry")
                     EXCEPT !.pos = Len(c2.blocks) + 1])

\* compile, after the program: add main
compile_main(c1) ==
    IF ~Ok(c1) THEN c1
    ELSE compile_entry(add_function(c1, "main", 0, "i32", "define"))

\* CodeGen::compile
compile(c, e) == compile_main(gen_expr(c, e))

(***************************************************************************)
(* The behaviour of the emitted code when it runs                          *)
(***************************************************************************)
Eval(o, fr, ext) ==
    CASE o.k = "const" -> o.n
      [] o.k = "reg" -> fr.regs[o.n]
      [] o.k = "arg" -> fr.args[o.n]
      [] OTHER -> ext

Frame(f, entry, args, depth, out) ==
    [f |-> f, b |-> entry, i |-> 1, prev |-> 0, regs |-> EmptyMap, mem |-> EmptyMap,
     args |-> args, depth |-> depth, out |-> out]

SetReg(fr, id, v) == [fr EXCEPT !.regs = Put(@, id, v), !.i = @ + 1]

Undefined(fr) == [st |-> "ub", v |-> 0, out |-> fr.out]

\* the result of a two-operand instruction; "ub" where the IR leaves it undefined
BinResult(op, a, b) ==
    CASE op = "add" -> [st |-> "ok", v |-> Wrap(a + b)]
      [] op = "sub" -> [st |-> "ok", v |-> Wrap(a - b)]
      [] op = "mul" -> [st |-> "ok", v |-> Wrap(a * b)]
      [] op = "sdiv" -> IF b = 0 \/ (a = IntMin /\ b = 0 - 1)
                        THEN [st |-> "ub", v |-> 0]
                        ELSE [st |-> "ok", v |-> TruncDiv(a, b)]

CmpResult(pred, a, b) ==
    CASE pred = "sgt" -> a > b [] pred = "slt" -> a < b [] pred = "sge" -> a >= b
      [] pred = "sle" -> a <= b [] pred = "eq" -> a = b [] pred = "ne" -> a # b

\* run frame fr of module c to the return of its function; ext is what a
\* call to code outside the module returns
RECURSIVE Exec(_, _, _)
Exec(c, fr, ext) ==
    IF fr.i > Len(c.blocks[fr.b].instrs) THEN Undefined(fr)
    ELSE
    LET ins == c.blocks[fr.b].instrs[fr.i]
        step == [fr EXCEPT !.i = @ + 1]
    IN CASE ins.op = "alloca" -> Exec(c, step, ext)
         [] ins.op = "store" ->
              Exec(c, [step EXCEPT !.mem = Put(@, ins.ptr, Eval(ins.val, fr, ext))], ext)
         [] ins.op = "load" ->
              IF ins.ptr \in DOMAIN fr.mem
              THEN Exec(c, SetReg(fr, ins.id, fr.mem[ins.ptr]), ext)
              ELSE Undefined(fr)
         [] ins.op \in {"add", "sub", "mul", "sdiv"} ->
              LET r == BinResult(ins.op, Eval(ins.lhs, fr, ext), Eval(ins.rhs, fr, ext))
              IN IF r.st = "ok" THEN Exec(c, SetReg(fr, ins.id, r.v), ext) ELSE Undefined(fr)
         [] ins.op = "icmp" ->
              Exec(c, SetReg(fr, ins.id,
                             IF CmpResult(ins.pred, Eval(ins.lhs, fr, ext), Eval(ins.rhs, fr, ext))
                             THEN 1 ELSE 0), ext)
         [] ins.op = "zext" -> Exec(c, SetReg(fr, ins.id, Eval(ins.val, fr, ext)), ext)
         [] ins.op = "trunc" ->
              Exec(c, SetReg(fr, ins.id, WrapTo(Eval(ins.val, fr, ext), ins.bits)), ext)
         [] ins.op = "ptrtoint" -> Exec(c, SetReg(fr, ins.id, ext), ext)
         [] ins.op = "phi" ->
              LET from == {j \in 1..Len(ins.incoming) : ins.incoming[j].block = fr.prev}
              IN IF from = {} THEN Undefined(fr)
                 ELSE Exec(c, SetReg(fr, ins.id,
                                     Eval(ins.incoming[CHOOSE j \in from : TRUE].val, fr, ext)), ext)
         [] ins.op = "br" -> Exec(c, [fr EXCEPT !.prev = fr.b, !.b = ins.dest, !.i = 1], ext)
         [] ins.op = "condbr" ->
              Exec(c, [fr EXCEPT !.prev = fr.b, !.i = 1,
                                 !.b = IF Eval(ins.cond, fr, ext) # 0 THEN ins.then ELSE ins.else],
                   ext)
         [] ins.op = "ret" ->
              [st |-> "ok", v |-> Eval(ins.val, fr, ext),
               out |-> Append(fr.out, [ev |-> "ret", fn |-> c.module[fr.f].name,
                                       depth |-> fr.depth, v |-> Eval(ins.val, fr, ext)])]
         [] ins.op = "call" ->
              LET args == [j \in 1..Len(ins.args) |-> Eval(ins.args[j], fr, ext)]
                  callee == c.module[ins.fn]
                  r == IF callee.linkage = "define"
                       THEN IF fr.depth >= MaxCallDepth
                            THEN [st |-> "stack", v |-> 0, out |-> fr.out]
                            ELSE Exec(c, Frame(ins.fn, EntryBlock(c, ins.fn), args,
                                               fr.depth + 1, fr.out), ext)
                       ELSE [st |-> "ok", v |-> ext,
                             out |-> Append(fr.out, [ev |-> callee.name, fn |-> callee.name,
                                                     depth |-> fr.depth + 1, v |-> Last(args)])]
              IN IF r.st # "ok" THEN r
                 ELSE Exec(c, [SetReg(fr, ins.id, r.v) EXCEPT !.out = r.out], ext)

\* the process: the C runtime calls the symbol `main` and exits with its result
run_executable(c, ext) ==
    LET entry == get_function(c, "main")
        r == Exec(c, Frame(entry, EntryBlock(c, entry), <<>>, 0, <<>>), ext)
    IN [status |-> r.st, main_ret |-> r.v, exit_code |-> r.v % Pow2(ExitBits), out |-> r.out]

(***************************************************************************)
(* parser.rs: parse_seppo (the items are those the grammar recognised)     *)
(***************************************************************************)
has_main_any(items) == \E i \in 1..Len(items) : items[i].t = "Function"

has_main(items) ==
    \E i \in 1..Len(items) : items[i].t = "Function" /\ items[i].name = "seppo"

(***************************************************************************)
(* main.rs: compile_file, one action per step                              *)
(***************************************************************************)
LlFile == "out.ll"

ObjFile == "out.o"

ExeFile == "out"

ParseSeppo ==
    /\ pc = "parse"
    /\ IF has_main(source)
       THEN expr' = Block(source) /\ pc' = "codegen" /\ error' = error
       ELSE expr' = expr /\ pc' = "failed" /\ error' = "No seppo function found"
    /\ UNCHANGED <<source, cc_env, cg, files, link_cmd, run>>

Compiled(c) ==
    /\ cg' = c
    /\ files' = c.fs
    /\ error' = c.err
    /\ pc' = IF Ok(c) THEN "emit_ir" ELSE "failed"

Compile ==
    /\ pc = "codegen"
    /\ Compiled(compile([CodeGenNew EXCEPT !.cc = cc_env, !.fs = files], expr))
    /\ UNCHANGED <<source, cc_env, expr, link_cmd, run>>

EmitIR ==
    /\ pc = "emit_ir"
    /\ IF module_verify(cg)
       THEN files' = files \cup {LlFile} /\ pc' = "write_obj" /\ error' = error
       ELSE files' = files /\ pc' = "failed" /\ error' = "Module verification failed"
    /\ UNCHANGED <<source, cc_env, expr, cg, link_cmd, run>>

WriteObjectFile ==
    /\ pc = "write_obj"
    /\ files' = files \cup {ObjFile}
    /\ pc' = "link"
    /\ UNCHANGED <<source, cc_env, expr, cg, error, link_cmd, run>>

\* symbols the primary object refers to and does not define
UndefinedSymbols(c) ==
    {c.module[InstrAt(c, x).fn].name : x \in {y \in AllSites(c) :
        InstrAt(c, y).op = "call" /\ c.module[InstrAt(c, y).fn].linkage = "declare"}}

LibC == {"printf"}

\* link_object_file: the linker is given the primary object file only
LinkObjectFile ==
    /\ pc = "link"
    /\ LET cmd == <<"cc", "-v", "-o", ExeFile, ObjFile>>
           objects == {cmd[i] : i \in 5..Len(cmd)}
           provided == LibC \cup UNION {cg.exports[o] : o \in objects \cap DOMAIN cg.exports}
           success == objects \subseteq files /\ UndefinedSymbols(cg) \subseteq provided
       IN /\ link_cmd' = cmd
          /\ IF success
             THEN files' = files \cup {ExeFile} /\ pc' = "cleanup" /\ error' = error
             ELSE files' = files /\ pc' = "failed"
                  /\ error' = "Linking failed"
    /\ UNCHANGED <<source, cc_env, expr, cg, run>>

CleanUp ==
    /\ pc = "cleanup"
    /\ files' = files \ {ObjFile}
    /\ pc' = "done"
    /\ UNCHANGED <<source, cc_env, expr, cg, error, link_cmd, run>>

ForeignResults == {0, 1}

NotRun == [status |-> "none", main_ret |-> 0, exit_code |-> 0, out |-> <<>>]

\* running the linked executable; where the emitted code has undefined
\* behaviour the process may end in any way
\* what the process ended with; a run that did something undefined can end
\* with any exit status, or be killed
Exited(r) ==
    IF r.status = "ub"
    THEN \E code \in 0..(Pow2(ExitBits) - 1), st \in {"ub_exit", "ub_signal"} :
            run' = [r EXCEPT !.status = st, !.exit_code = code]
    ELSE run' = r

RunExecutable ==
    /\ pc = "done"
    /\ ExeFile \in files
    /\ \E ext \in ForeignResults : Exited(run_executable(cg, ext))
    /\ pc' = "exited"
    /\ UNCHANGED <<source, cc_env, expr, cg, error, files, link_cmd>>

(***************************************************************************)
(* Input programs                                                          *)
(***************************************************************************)
Seppo(body) == Function("seppo", <<>>, Block(body))

\* branch bodies of the conditional programs
Branches ==
    {Block(<<>>),
     Block(<<Assignment("x", Number(1))>>),
     Block(<<Assignment("y", Number(2))>>),
     Block(<<Return(Number(3))>>),
     Block(<<Assignment("x", Number(3)), Assignment("x", Operation("+", Variable("x"), Number(1)))>>),
     Block(<<Conditional(Variable("x"), Block(<<Assignment("x", Number(6))>>), NoBlock)>>)}

Conditions ==
    {Number(0), Number(2), Number(0 - 1), Operation(">", Variable("x"), Number(1))}

Preludes == {<<>>, <<Assignment("x", Number(0))>>, <<Assignment("x", Number(5))>>}

ConditionalPrograms ==
    {<<Seppo(pre \o <<Conditional(cond, tb, fb), Return(Variable(r))>>)>> :
        pre \in Preludes, cond \in Conditions, tb \in Branches,
        fb \in Branches \cup {NoBlock}, r \in {"x", "y"}}

\* one-statement function bodies, some of which do not compile
Statements ==
    {Return(Number(7)),
     Return(Variable("x")),
     Assignment("x", Number(4)),
     Return(FunctionCall("f", <<>>)),
     Return(FunctionCall("g", <<Variable("y")>>)),
     Return(FunctionCall("g", <<Number(1)>>)),
     Return(Operation("+", FunctionCall("seppo", <<>>), FunctionCall("f", <<>>))),
     Return(Operation("+", Number(1), Variable("y"))),
     PrintStmt("Decimal", Number(2)),
     Conditional(Number(0), Block(<<Return(FunctionCall("f", <<>>))>>), NoBlock)}

Bodies == {<<s>> : s \in Statements} \cup {<<Assignment("x", Number(4)), s>> : s \in Statements}

FunctionNames == {"seppo", "f", "g"}

ForeignBlocks == {InlineC(<<"int", " ", "g", "(", "int", " ", "a", ")", "{", "}">>)}

ErrorPrograms ==
    {pre \o <<Function(n[1], <<>>, Block(b1)), Function(n[2], <<>>, Block(b2))>> :
        pre \in {<<>>} \cup {<<blk>> : blk \in ForeignBlocks},
        n \in {m \in FunctionNames \X FunctionNames : m[1] # m[2]},
        b1 \in Bodies, b2 \in {<<s>> : s \in Statements}}

\* a foreign block after a function, and two foreign blocks
ForeignOrderPrograms ==
    {<<Function("f", <<>>, Block(<<Return(Number(7))>>)), InlineC(<<"int", " ", "g", "(", ")">>),
       Seppo(<<Return(FunctionCall("f", <<>>))>>)>>,
     <<InlineC(<<"int", " ", "g", "(", ")">>), InlineC(<<"int", " ", "h", "(", "a", ",", "b", ")">>),
       Seppo(<<Return(Number(7))>>)>>}

\* functions whose body does not end in a Return
ImplicitReturnPrograms ==
    {<<Seppo(pre \o <<Conditional(cond, tb, fb)>>)>> :
        pre \in Preludes, cond \in Conditions, tb \in Branches, fb \in Branches \cup {NoBlock}}
    \cup {<<Seppo(body)>> :
             body \in {<<>>, <<Assignment("x", Number(5))>>, <<PrintStmt("Decimal", Number(2))>>,
                       <<Assignment("x", Number(5)), Variable("x")>>}}
    \cup {<<Function("f", <<>>, Block(<<Assignment("x", Number(4))>>)),
             Seppo(<<Return(Operation("+", FunctionCall("f", <<>>), Number(1)))>>)>>}

\* a Return in a nested Block, with and without a statement after the Block,
\* and a Return as an operand
NestedReturnPrograms ==
    {<<Seppo(body)>> :
        body \in {<<Block(<<Return(Number(1))>>), Assignment("x", Number(2))>>,
                  <<Block(<<Block(<<Return(Number(1))>>)>>)>>,
                  <<Assignment("x", Return(Number(5)))>>,
                  <<Return(Operation("+", Return(Number(1)), Number(2)))>>,
                  <<Return(Return(Number(1)))>>,
                  <<Conditional(Number(2),
                                Block(<<Block(<<Return(Number(1))>>), Assignment("x", Number(2))>>),
                                NoBlock),
                    Return(Number(0))>>,
                  <<Conditional(Number(2), Block(<<Block(<<Return(Number(1))>>)>>), NoBlock),
                    Return(Number(0))>>}}

\* a Conditional used for its value
ValueBranches ==
    {Block(<<>>),
     Block(<<Assignment("x", Number(1))>>),
     Block(<<Return(Number(3))>>),
     Block(<<Assignment("x", Number(3)), Assignment("x", Operation("+", Variable("x"), Number(1)))>>),
     Block(<<Number(6)>>)}

ValuePrograms ==
    {<<Seppo(pre \o <<Return(Conditional(cond, tb, fb))>>)>> :
        pre \in Preludes, cond \in Conditions, tb \in ValueBranches,
        fb \in ValueBranches \cup {NoBlock}}

\* a false branch that reads a name, after a true branch that binds y
ScopePrograms ==
    {<<Seppo(pre \o <<Conditional(cond, Block(<<Assignment("y", Number(2))>>), fb),
                      Return(Number(0))>>)>> :
        pre \in Preludes, cond \in {Number(0), Number(2)},
        fb \in {Block(<<Return(Variable("y"))>>),
                Block(<<Assignment("x", Variable("y"))>>),
                Block(<<Return(Variable("x"))>>),
                Block(<<Assignment("y", Number(3))>>)}}

\* a call of a defined (f) or an undefined (g) function, with arguments some
\* of which do not compile
CallArguments ==
    {<<>>, <<Variable("x")>>, <<Variable("y")>>, <<Variable("x"), Variable("y")>>,
     <<Variable("y"), Variable("z")>>, <<Number(1), Number(2)>>,
     <<FunctionCall("h", <<>>), Variable("y")>>}

CallOrderPrograms ==
    {<<Function("f", <<"a", "b">>, Block(<<Return(Variable("a"))>>)),
       Seppo(pre \o <<Return(FunctionCall(n, args))>>)>> :
        pre \in Preludes, n \in {"f", "g"}, args \in CallArguments}

\* a Block whose value is used, with and without items after a Return; x and
\* z are bound before it
BlockItems ==
    {<<>>,
     <<Number(6)>>,
     <<Assignment("x", Number(1)), Assignment("z", Number(2)), Variable("x")>>,
     <<Assignment("z", Number(2)), Assignment("x", Operation("+", Variable("z"), Number(1)))>>,
     <<Return(Number(1)), Assignment("x", Number(2))>>,
     <<Return(Number(1)), Return(Number(2))>>,
     <<Return(Number(1)), Return(Variable("y"))>>,
     <<Return(Number(1)), Return(FunctionCall("g", <<>>))>>,
     <<Assignment("x", Number(1)), Return(Variable("x")), Assignment("x", Number(2)),
       Return(Variable("x"))>>}

BlockPrograms ==
    {<<Seppo(<<Assignment("x", Number(0)), Assignment("z", Number(0)),
               Return(Conditional(cond, Block(items), Block(<<Number(3)>>)))>>)>> :
        cond \in {Number(0), Number(2)}, items \in BlockItems}

\* a Function inside the body of seppo, after x is bound and before a last
\* statement (ASTs of types.rs handed to CodeGen::compile; parse_seppo itself
\* yields top-level Functions without parameters)
NestedParams == {<<>>, <<"a">>, <<"a", "b">>, <<"x">>}

NestedBodies ==
    {<<Return(Number(1))>>,
     <<Assignment("x", Number(2)), Assignment("y", Number(3)), Return(Variable("x"))>>,
     <<Return(Variable("a"))>>,
     <<Return(Variable("x"))>>}

NestedTails ==
    {Return(Variable("x")), Assignment("x", Number(5)), Return(FunctionCall("f", <<>>)),
     Return(Variable("y")), Return(Variable("a"))}

NestedPrograms ==
    {<<Seppo(<<Assignment("x", Number(1)), Function("f", ps, Block(body)), tail>>)>> :
        ps \in NestedParams, body \in NestedBodies, tail \in NestedTails}

\* a Function with parameters, called from seppo
ParamLists == {<<"a">>, <<"a", "b">>, <<"b", "a">>, <<"a", "a">>}

ParamBodies ==
    {Variable("a"), Variable("b"), Operation("-", Variable("a"), Variable("b"))}

ParamArguments == {<<Number(5)>>, <<Number(5), Number(3)>>, <<Number(3), Number(5)>>}

ParamPrograms ==
    {<<Function("f", ps, Block(<<Return(body)>>)), Seppo(<<Return(FunctionCall("f", args))>>)>> :
        ps \in ParamLists, body \in ParamBodies, args \in ParamArguments}

\* a foreign block with the definition of g and calls of g in its body, and a
\* call of g from seppo
ForeignParams == {<<>>, <<"a">>, <<"a", ",", "b">>}

ForeignDefinitions == {<<"int", " ", "g", "(">> \o ps \o <<")">> : ps \in ForeignParams}

ForeignCallSites ==
    {<<" ", "g", "(">> \o ps \o <<")">> : ps \in ForeignParams}
    \cup {<<" ", "g", "(">> \o ps \o <<")", " ", "g", "(">> \o qs \o <<")">> :
             ps \in ForeignParams, qs \in ForeignParams}
    \cup {<<" ", "if", " ", "(", "a", ")", " ", "g", "(">> \o ps \o <<")">> :
             ps \in ForeignParams}

RecursionPrograms ==
    {<<InlineC(def \o <<"{">> \o sites \o <<"}">>), Seppo(<<Return(FunctionCall("g", args))>>)>> :
        def \in ForeignDefinitions, sites \in ForeignCallSites,
        args \in {<<>>, <<Number(1)>>, <<Number(1), Number(2)>>}}

\* ASTs that only the library interface builds (lib.rs exports CodeGen and
\* SeppoExpr): Functions with parameters and Functions inside a body
LibraryPrograms == ParamPrograms \cup NestedPrograms \cup CallOrderPrograms

Programs ==
    RecursionPrograms \cup BlockPrograms \cup ScopePrograms \cup ValuePrograms
    \cup ConditionalPrograms \cup ErrorPrograms \cup ForeignOrderPrograms
    \cup ImplicitReturnPrograms \cup NestedReturnPrograms

ArithmeticPrograms ==
    {<<Seppo(<<Return(Operation(op, Number(a), Number(b)))>>)>> :
        op \in ArithOps \cup CmpOps, a \in I64, b \in I64}

Atoms == {"f", " ", "(", ")", ","}

Texts == UNION {[1..n -> Atoms] : n \in 0..MaxCodeLen}

\* foreign texts: any atoms, alone or after a return type
ForeignPrograms ==
    {<<InlineC(pre \o text), Seppo(<<Return(Number(0))>>)>> :
        pre \in {<<>>, <<"int", " ">>}, text \in Texts}

\* cc accepts the block, rejects it with one of two diagnostics, or cannot be
\* started
CcOutcomes ==
    {CcOk,
     [spawned |-> TRUE, status |-> 1, stderr |-> "inline.c:6:1: error: unknown type name"],
     [spawned |-> TRUE, status |-> 1, stderr |-> "inline.c:6:9: error: expected ';'"],
     [spawned |-> FALSE, status |-> 0, stderr |-> "No such file or directory (os error 2)"]}

NumForeign(items) == Cardinality({i \in 1..Len(items) : items[i].t = "InlineC"})

InitWith(programs) ==
    /\ source \in programs
    /\ cc_env \in [1..NumForeign(source) -> CcOutcomes]
    /\ pc = "parse"
    /\ expr = Block(<<>>)
    /\ cg = CodeGenNew
    /\ error = ""
    /\ files = {}
    /\ link_cmd = <<>>
    /\ run = NotRun

Init == InitWith(Programs)

InitArithmetic == InitWith(ArithmeticPrograms)

InitForeign == InitWith(ForeignPrograms)

InitLibrary == InitWith(LibraryPrograms)

Next ==
    \/ ParseSeppo
    \/ Compile
    \/ EmitIR
    \/ WriteObjectFile
    \/ LinkObjectFile
    \/ CleanUp
    \/ RunExecutable

Spec == Init /\ [][Next]_vars

SpecArithmetic == InitArithmetic /\ [][Next]_vars

SpecForeign == InitForeign /\ [][Next]_vars

SpecLibrary == InitLibrary /\ [][Next]_vars

(***************************************************************************)
(* What a source program means: native arithmetic, one store per function  *)
(***************************************************************************)
NativeArith(op, a, b) ==
    CASE op = "+" -> Wrap(a + b)
      [] op = "-" -> Wrap(a - b)
      [] op = "*" -> Wrap(a * b)
      [] op = "/" -> TruncDiv(a, b)

NativeCmp(op, a, b) ==
    CASE op = ">" -> a > b [] op = "<" -> a < b [] op = ">=" -> a >= b
      [] op = "<=" -> a <= b [] op = "==" -> a = b [] op = "!=" -> a # b

RECURSIVE RefValue(_, _)
RefValue(e, st) ==
    CASE e.t = "Number" -> e.n
      [] e.t = "Variable" -> st[e.name]
      [] e.t = "Operation" ->
           IF e.op \in ArithOps
           THEN NativeArith(e.op, RefValue(e.left, st), RefValue(e.right, st))
           ELSE IF NativeCmp(e.op, RefValue(e.left, st), RefValue(e.right, st)) THEN 1 ELSE 0

\* the statements items[i..] run on r = [st, returned, v]
RECURSIVE RefItems(_, _, _)
RefItems(items, i, r) ==
    IF i > Len(items) \/ r.returned THEN r
    ELSE LET it == items[i]
         IN CASE it.t = "Assignment" ->
                   RefItems(items, i + 1, [r EXCEPT !.st = Put(@, it.name, RefValue(it.value, r.st))])
              [] it.t = "Return" ->
                   [r EXCEPT !.returned = TRUE, !.v = RefValue(it.value, r.st)]
              [] it.t = "Conditional" ->
                   LET taken == IF RefValue(it.condition, r.st) # 0 THEN it.true_block
                                ELSE it.false_block
                   IN RefItems(items, i + 1,
                               IF taken.t = "None" THEN r ELSE RefItems(taken.items, 1, r))
              [] OTHER -> RefItems(items, i + 1, r)

IsSeppoReturn(ev) == ev.ev = "ret" /\ ev.fn = "seppo" /\ ev.depth = 1

\* the values the entry function returned to `main` in the run
SeppoReturns == SelectSeq(run.out, IsSeppoReturn)

(***************************************************************************)
(* C1                                                                      *)
(***************************************************************************)
\* a program `x = a; if c {..} else {..}; return x`
ReadsBoundAfterConditional ==
    /\ source \in ConditionalPrograms
    /\ Len(source[1].body.items) = 3
    /\ source[1].body.items[3].value.name = "x"

StoreBefore == Put(EmptyMap, "x", source[1].body.items[1].value.n)

TakenBranch ==
    LET cnd == source[1].body.items[2]
        taken == IF RefValue(cnd.condition, StoreBefore) # 0 THEN cnd.true_block
                 ELSE cnd.false_block
    IN IF taken.t = "None" THEN Block(<<>>) ELSE taken

AfterTakenBranch ==
    RefItems(TakenBranch.items, 1, [st |-> StoreBefore, returned |-> FALSE, v |-> 0])

\* C1: a variable bound before a Conditional, read after it, has the value
\* last stored on the path that ran: the taken branch's value if that branch
\* assigns it, else the value it had before the Conditional; a non-zero
\* condition takes the true branch and zero the false branch.
C1_ReadAfterConditional ==
    (pc = "exited" /\ ReadsBoundAfterConditional /\ ~AfterTakenBranch.returned) =>
        /\ run.status = "ok"
        /\ Len(SeppoReturns) = 1
        /\ SeppoReturns[1].v = AfterTakenBranch.st["x"]

C1_Witness ==
    /\ pc = "exited"
    /\ ReadsBoundAfterConditional
    /\ ~AfterTakenBranch.returned
    /\ source[1].body.items[2].condition = Number(0 - 1)
    /\ \E i \in 1..Len(TakenBranch.items) :
          TakenBranch.items[i].t = "Assignment" /\ TakenBranch.items[i].name = "x"
    /\ SeppoReturns[1].v # StoreBefore["x"]

Range(seq) == {seq[i] : i \in 1..Len(seq)}

(***************************************************************************)
(* C2                                                                      *)
(***************************************************************************)
\* a program `[x = a;] if c {..} else {..}; return y` with `y = ..` in a branch
ReadsBranchBoundName ==
    /\ source \in ConditionalPrograms
    /\ LET items == source[1].body.items
           cnd == items[Len(items) - 1]
       IN /\ Last(items).value.name = "y"
          /\ \E b \in {cnd.true_block, cnd.false_block} :
                b.t = "Block" /\ Assignment("y", Number(2)) \in Range(b.items)

\* C2: bindings are scoped to the function, not to nested blocks: a name
\* first assigned inside a branch of a Conditional is still bound after the
\* Conditional, so a later reference to it does not fail with
\* UndefinedVariable.
C2_BranchBindingStaysBound ==
    ReadsBranchBoundName => error # "Undefined variable: y"

(***************************************************************************)
(* C3                                                                      *)
(***************************************************************************)
\* C3: the linker is invoked with the primary object file and every foreign
\* object file recorded during code generation.
C3_LinkerGetsEveryObject ==
    link_cmd # <<>> =>
        /\ ObjFile \in Range(link_cmd)
        /\ Range(cg.c_object_files) \subseteq Range(link_cmd)

(***************************************************************************)
(* C4                                                                      *)
(***************************************************************************)
DefinesEntryFunction == \E item \in Range(source) : item.t = "Function" /\ item.name = "seppo"

ObjectFiles == {ObjFile} \cup {TempDir(k) \o "/inline.o" : k \in 1..Len(source)}

\* C4: a program that defines no function named seppo fails to compile with
\* "No seppo function found", and no object file is emitted.
C4_MissingEntryPoint ==
    ~DefinesEntryFunction =>
        /\ pc \in {"parse", "failed"}
        /\ pc = "failed" => error = "No seppo function found"
        /\ files \cap ObjectFiles = {}

C4_Witness ==
    /\ ~DefinesEntryFunction
    /\ pc = "failed"
    /\ error = "No seppo function found"
    /\ \E item \in Range(source) : item.t = "Function"
    /\ \E item \in Range(source) : item.t = "InlineC"

(***************************************************************************)
(* C5                                                                      *)
(***************************************************************************)
UnboundLookup(l) == l.name \notin l.scope

\* C5: compiling a reference to a name that is not bound in the scope at that
\* point fails with UndefinedVariable carrying the name, and the failure
\* aborts the compilation: the error is what compile returns, no `main` is
\* added to the module and neither the object file nor the executable is
\* written.
C5_UndefinedVariableAborts ==
    \A i \in 1..Len(cg.lookups) :
        UnboundLookup(cg.lookups[i]) =>
            /\ i = Len(cg.lookups)
            /\ cg.err = "Undefined variable: " \o cg.lookups[i].name
            /\ error = cg.err
            /\ pc = "failed"
            /\ get_function(cg, "main") = 0
            /\ ObjFile \notin files
            /\ ExeFile \notin files

C5_Witness ==
    /\ pc = "failed"
    /\ cg.lookups # <<>>
    /\ UnboundLookup(Last(cg.lookups))
    /\ Last(cg.lookups).scope # {}
    /\ error = "Undefined variable: " \o Last(cg.lookups).name

(***************************************************************************)
(* What a foreign text declares, read off the text                         *)
(***************************************************************************)
SetMax(S) == CHOOSE x \in S : \A y \in S : y <= x

SetMin(S) == CHOOSE x \in S : \A y \in S : x <= y

RECURSIVE Ascending(_)
Ascending(S) == IF S = {} THEN <<>> ELSE <<SetMin(S)>> \o Ascending(S \ {SetMin(S)})

ParenPositions(code) == {p \in 1..Len(code) : code[p] = "("}

WhitespaceBefore(code, p) == {i \in 1..(p - 1) : code[i] = " "}

ClosingAfter(code, p) == {j \in (p + 1)..Len(code) : code[j] = ")"}

\* the text between the last whitespace before the `(` at p and that `(`
TokenBefore(code, p) ==
    LET from == IF WhitespaceBefore(code, p) = {} THEN 1
                ELSE SetMax(WhitespaceBefore(code, p)) + 1
    IN Cat(SubSeq(code, from, p - 1))

\* the text from the `(` at p to the first following `)` (to the end of the
\* text when there is none)
ParenGroup(code, p) ==
    LET to == IF ClosingAfter(code, p) = {} THEN Len(code)
              ELSE SetMin(ClosingAfter(code, p)) - 1
    IN SubSeq(code, p + 1, to)

GroupArity(code, p) ==
    LET group == ParenGroup(code, p)
    IN IF \A i \in 1..Len(group) : group[i] = " " THEN 0
       ELSE Cardinality({i \in 1..Len(group) : group[i] = ","}) + 1

\* the `(` that have a whitespace before them and a `)` after them
MatchedParens(code) ==
    {p \in ParenPositions(code) : WhitespaceBefore(code, p) # {} /\ ClosingAfter(code, p) # {}}

DeclaredNames(code) == {TokenBefore(code, p) : p \in MatchedParens(code)}

(***************************************************************************)
(* C6                                                                      *)
(***************************************************************************)
\* how many functions the module gets from item k of the program
FunctionsOfItem(k) ==
    IF source[k].t = "InlineC" THEN Cardinality(MatchedParens(Trim(source[k].code))) ELSE 1

RECURSIVE FunctionsBefore(_)
FunctionsBefore(k) == IF k <= 1 THEN 0 ELSE FunctionsBefore(k - 1) + FunctionsOfItem(k - 1)

\* the item of the program whose function is number f of the module
\* (number 1 is printf)
ItemOfFunction(f) ==
    CHOOSE k \in 1..Len(source) : source[k].t = "Function" /\ FunctionsBefore(k) + 2 = f

\* the names defined by the items up to and including the function at item k
DefinedUpTo(k) ==
    UNION {IF source[j].t = "Function" THEN {source[j].name}
           ELSE DeclaredNames(Trim(source[j].code)) : j \in 1..k}

\* C6: a function's name is in the function symbol table from the moment its
\* definition (user or foreign) is visited, before its body is compiled: at
\* every call the table holds exactly the names defined so far, the function
\* being compiled included, so a call to its own name resolves and a call to
\* a function defined later fails with UndefinedFunction.
C6_RegisteredBeforeBody ==
    \A i \in 1..Len(cg.calls) :
        LET l == cg.calls[i]
        IN /\ l.known = DefinedUpTo(ItemOfFunction(l.caller))
           /\ \/ l.name \in l.known
              \/ i = Len(cg.calls) /\ cg.err = "Undefined function: " \o l.name

C6_Witness ==
    /\ pc = "failed"
    /\ Len(cg.calls) = 2
    /\ cg.calls[1].name = "seppo" /\ "seppo" \in cg.calls[1].known
    /\ cg.calls[2].name = "f" /\ "f" \notin cg.calls[2].known
    /\ error = "Undefined function: f"
    /\ \E k \in 1..Len(source) :
          /\ source[k].t = "Function" /\ source[k].name = "f"
          /\ k > ItemOfFunction(cg.calls[2].caller)

(***************************************************************************)
(* C7, C8                                                                  *)
(***************************************************************************)
\* the operation of a program `return a op b`
ReturnedOperation == source[1].body.items[1].value

ReturnsOperation == source \in ArithmeticPrograms

\* the run ended normally and the entry function returned v
SeppoReturned(v) ==
    /\ run.status = "ok"
    /\ Len(SeppoReturns) = 1
    /\ SeppoReturns[1].v = v

ReturnedNativeArith ==
    LET e == ReturnedOperation
    IN SeppoReturned(NativeArith(e.op, e.left.n, e.right.n))

\* C7 as stated: for all a and b with b # 0, `return a op b` with op one of
\* + - * / returns the native result.
C7_AllNonZeroDivisors ==
    (pc = "exited" /\ ReturnsOperation /\ ReturnedOperation.op \in ArithOps
        /\ ReturnedOperation.right.n # 0)
    => ReturnedNativeArith

\* the one quotient with a non-zero divisor that the width cannot hold
QuotientOverflows(e) == e.op = "/" /\ e.left.n = IntMin /\ e.right.n = 0 - 1

\* C7 amended: for all a and b with b # 0, `return a op b` with op one of
\* + - * / returns the native result (sum, difference and product modulo
\* 2^width, quotient truncated toward zero), except the quotient of the least
\* integer by -1.
C7_NativeArithmetic ==
    (pc = "exited" /\ ReturnsOperation /\ ReturnedOperation.op \in ArithOps
        /\ ReturnedOperation.right.n # 0 /\ ~QuotientOverflows(ReturnedOperation))
    => ReturnedNativeArith

C7_Witness ==
    /\ pc = "exited"
    /\ ReturnsOperation
    /\ ReturnedOperation = Operation("/", Number(0 - 7), Number(2))
    /\ SeppoReturned(0 - 3)

\* C8: for all a and b, `return a op b` with op one of > < >= <= == !=
\* returns 1 when the signed relation holds and 0 when it does not, and
\* nothing else.
C8_ComparisonYieldsOneOrZero ==
    (pc = "exited" /\ ReturnsOperation /\ ReturnedOperation.op \in CmpOps)
    => LET e == ReturnedOperation
       IN /\ SeppoReturned(IF NativeCmp(e.op, e.left.n, e.right.n) THEN 1 ELSE 0)
          /\ SeppoReturns[1].v \in {0, 1}

C8_Witness ==
    /\ pc = "exited"
    /\ ReturnsOperation
    /\ ReturnedOperation = Operation(">=", Number(3), Number(3))
    /\ SeppoReturned(1)

(***************************************************************************)
(* C9                                                                      *)
(***************************************************************************)
\* the instructions of the generated `main`
MainInstrs ==
    LET b == EntryBlock(cg, get_function(cg, "main")) IN cg.blocks[b].instrs

CallsIn(instrs) == SelectSeq(instrs, LAMBDA ins : ins.op = "call")

\* C9: `main` calls `seppo` once, without arguments, and returns what it
\* returned truncated to the width of main's result; the exit code of the
\* process is that value reduced to the width of an exit status.
C9_MainReturnsTruncated ==
    /\ (pc \in {"emit_ir", "write_obj", "link", "cleanup", "done", "exited"}) =>
          /\ Len(CallsIn(MainInstrs)) = 1
          /\ cg.module[CallsIn(MainInstrs)[1].fn].name = "seppo"
          /\ CallsIn(MainInstrs)[1].args = <<>>
    /\ (pc = "exited" /\ run.status = "ok") =>
          /\ Len(SeppoReturns) = 1
          /\ run.main_ret = WrapTo(SeppoReturns[1].v, MainBits)
          /\ run.exit_code = run.main_ret % Pow2(ExitBits)

\* `seppo` returned a value that main's result cannot hold
C9_Witness ==
    /\ pc = "exited"
    /\ run.status = "ok"
    /\ Len(SeppoReturns) = 1
    /\ SeppoReturns[1].v = IntMax
    /\ run.main_ret = WrapTo(IntMax, MainBits)
    /\ run.main_ret # IntMax

(***************************************************************************)
(* C10                                                                     *)
(***************************************************************************)
\* the program has one foreign block, and the native compiler accepted it
ForeignBlockCompiled ==
    /\ source \in ForeignPrograms
    /\ cc_env[1] = CcOk
    /\ pc \notin {"parse", "codegen"}

ForeignCode == Trim(source[1].code)

\* the functions the module got from the foreign block (function 1 is printf,
\* the last two are `seppo` and `main`)
ForeignDeclarations == SubSeq(cg.module, 2, Len(cg.module) - 2)

\* the module got one function per `(` of parens, in the order of the text,
\* each with the arity of its group and 64-bit integers throughout, and the
\* function symbol table holds each name, bound to the last function of
\* that name
RegistersCallables(parens) ==
    LET P == Ascending(parens)
        D == ForeignDeclarations
    IN /\ Len(D) = Len(P)
       /\ \A k \in 1..Len(P) :
             /\ D[k].nparams = GroupArity(ForeignCode, P[k])
             /\ D[k].ret = "i64"
             /\ D[k].linkage = "declare"
             /\ (\A j \in 1..(k - 1) : TokenBefore(ForeignCode, P[j]) # TokenBefore(ForeignCode, P[k]))
                   => D[k].name = TokenBefore(ForeignCode, P[k])
             /\ TokenBefore(ForeignCode, P[k]) \in DOMAIN cg.functions
             /\ cg.functions[TokenBefore(ForeignCode, P[k])] =
                   1 + SetMax({j \in 1..Len(P) :
                                 TokenBefore(ForeignCode, P[j]) = TokenBefore(ForeignCode, P[k])})
       /\ DOMAIN cg.functions = {TokenBefore(ForeignCode, p) : p \in parens} \cup {"seppo"}

\* C10 as stated: every `(` of a foreign text registers a callable named by
\* the token before it, with arity commas + 1 (0 for an empty or blank group).
C10_EveryParenRegisters ==
    ForeignBlockCompiled => RegistersCallables(ParenPositions(ForeignCode))

\* C10 amended: every `(` of the trimmed foreign text that has a whitespace
\* somewhere before it and a `)` somewhere after it registers a callable
\* named by the text between the last whitespace before it and the `(`, with
\* arity commas + 1 (0 for an empty or blank group), parameters and result
\* 64-bit integers; the other `(` register nothing.
C10_MatchedParenRegisters ==
    ForeignBlockCompiled => RegistersCallables(MatchedParens(ForeignCode))

C10_Witness ==
    /\ ForeignBlockCompiled
    /\ source[1].code = <<"int", " ", "f", "(", ",", ")">>
    /\ "f" \in DOMAIN cg.functions
    /\ cg.module[cg.functions["f"]] =
          [name |-> "f", nparams |-> 2, ret |-> "i64", linkage |-> "declare"]

(***************************************************************************)
(* C11                                                                     *)
(***************************************************************************)
\* the item of the program that is its k-th foreign block
ItemOfBlock(k) ==
    CHOOSE i \in 1..Len(source) :
        /\ source[i].t = "InlineC"
        /\ Cardinality({j \in 1..i : source[j].t = "InlineC"}) = k

\* cc was run on the k-th foreign block and exited non-zero
CcRejected(k) ==
    /\ pc \notin {"parse", "codegen"}
    /\ k = cg.ncc
    /\ k >= 1
    /\ cc_env[k].spawned
    /\ cc_env[k].status # 0

\* C11: when cc exits non-zero on a foreign block, the compilation fails with
\* an error that carries cc's stderr, and nothing of the block is kept: the
\* function symbol table and the module hold what the items before the block
\* defined, and the list of foreign objects holds the objects of the blocks
\* before it.
C11_RejectedBlockKeepsNothing ==
    \A k \in 1..NumForeign(source) :
        CcRejected(k) =>
            /\ pc = "failed"
            /\ error = "Failed to compile C code: " \o cc_env[k].stderr
            /\ cg.c_object_files = [j \in 1..(k - 1) |-> OFile(j)]
            /\ DOMAIN cg.functions =
                  IF ItemOfBlock(k) = 1 THEN {} ELSE DefinedUpTo(ItemOfBlock(k) - 1)
            /\ Len(cg.module) = 1 + FunctionsBefore(ItemOfBlock(k))

\* the second block of a program is rejected, the first is kept
C11_Witness ==
    /\ CcRejected(2)
    /\ cg.c_object_files = <<OFile(1)>>
    /\ DOMAIN cg.functions = {"g"}
    /\ error = "Failed to compile C code: inline.c:6:9: error: expected ';'"

(***************************************************************************)
(* C12                                                                     *)
(***************************************************************************)
\* compile_file has returned, with Ok or with an error
Returned == pc \in {"done", "failed"}

\* C12: when compile_file returns, the primary object file and every foreign
\* object file made during the run are gone, after a successful link and
\* after a failed one.
C12_ObjectsDeletedOnReturn ==
    Returned => /\ ObjFile \notin files
                /\ \A k \in 1..cg.ncc : OFile(k) \notin files

(***************************************************************************)
(* C13                                                                     *)
(***************************************************************************)
\* C13: when the compilation returns, with Ok or with an error, the scratch
\* directory of every foreign block and the inline.c written into it are gone.
C13_ScratchRemovedOnReturn ==
    Returned => \A k \in 1..cg.ncc : TempDir(k) \notin files /\ CFile(k) \notin files

(***************************************************************************)
(* C14                                                                     *)
(***************************************************************************)
\* a Return occurs somewhere in e
RECURSIVE HasReturn(_)
HasReturn(e) ==
    CASE e.t = "Return" -> TRUE
      [] e.t = "Block" -> \E i \in 1..Len(e.items) : HasReturn(e.items[i])
      [] e.t = "Conditional" ->
           HasReturn(e.condition) \/ HasReturn(e.true_block) \/ HasReturn(e.false_block)
      [] e.t \in {"Assignment", "Print"} -> HasReturn(e.value)
      [] e.t = "Operation" -> HasReturn(e.left) \/ HasReturn(e.right)
      [] e.t = "FunctionCall" -> \E i \in 1..Len(e.args) : HasReturn(e.args[i])
      [] OTHER -> FALSE

\* the program is one function `seppo`; what its body does, by the meaning of
\* the statements
OnlySeppo == Len(source) = 1 /\ source[1].t = "Function" /\ source[1].name = "seppo"

BodyOutcome ==
    RefItems(source[1].body.items, 1, [st |-> EmptyMap, returned |-> FALSE, v |-> 0])

\* C14: a function returns 0 on every path that reaches no Return: a function
\* with no Return in it returns 0 from every call, and a run of `seppo` that
\* ends without reaching a Return returns 0, whatever its last statement.
C14_DefaultReturnZero ==
    pc = "exited" =>
        /\ \A i \in 1..Len(run.out) :
              (/\ run.out[i].ev = "ret"
               /\ \E k \in 1..Len(source) :
                     /\ source[k].t = "Function"
                     /\ source[k].name = run.out[i].fn
                     /\ ~HasReturn(source[k].body))
              => run.out[i].v = 0
        /\ (OnlySeppo /\ source \in ImplicitReturnPrograms /\ ~BodyOutcome.returned)
              => SeppoReturned(0)

\* the last statement has a value other than 0, and a branch that returns
\* was not taken
C14_Witness ==
    /\ pc = "exited"
    /\ source = <<Seppo(<<Assignment("x", Number(5)),
                          Conditional(Number(0), Block(<<Return(Number(3))>>),
                                      Block(<<Assignment("x", Number(1))>>))>>)>>
    /\ SeppoReturned(0)

(***************************************************************************)
(* C15                                                                     *)
(***************************************************************************)
\* CodeGen::compile returned Ok
CompiledOk == pc \notin {"parse", "codegen"} /\ cg.err = "" /\ error # "No seppo function found"

TerminatorsOf(b) == {i \in 1..Len(cg.blocks[b].instrs) : cg.blocks[b].instrs[i].op \in Terminators}

CodeGenerated == pc \notin {"parse", "codegen"}

MergeBlocks == {b \in 1..Len(cg.blocks) : cg.blocks[b].label = "merge"}

\* the phis of the names merged in block b (not the phi of the Conditional's
\* own value)
VariablePhis(b) ==
    {i \in 1..Len(cg.blocks[b].instrs) :
        cg.blocks[b].instrs[i].op = "phi" /\ cg.blocks[b].instrs[i].name # "merge_val"}

IncomingBlocks(phi) == {phi.incoming[j].block : j \in 1..Len(phi.incoming)}

\* C16: the phi of a merged name has exactly one incoming edge per branch
\* that reaches the merge block (the blocks that branch to it), and its
\* result is stored in the merge block.
C16_VariablePhiPerReachingBranch ==
    CodeGenerated =>
        \A b \in MergeBlocks : \A i \in VariablePhis(b) :
            LET phi == cg.blocks[b].instrs[i]
            IN /\ Len(phi.incoming) = Cardinality(Predecessors(cg, b))
               /\ IncomingBlocks(phi) = Predecessors(cg, b)
               /\ \E j \in 1..Len(cg.blocks[b].instrs) :
                     /\ cg.blocks[b].instrs[j].op = "store"
                     /\ cg.blocks[b].instrs[j].val = Reg(phi.id)

(***************************************************************************)
(* C17                                                                     *)
(***************************************************************************)
\* C17: in every basic block the phi nodes come first: no phi follows an
\* instruction that is not a phi.
C17_PhisAtBlockEntry ==
    CodeGenerated =>
        \A b \in 1..Len(cg.blocks) : \A i \in 1..Len(cg.blocks[b].instrs) :
            cg.blocks[b].instrs[i].op = "phi" =>
                \A j \in 1..(i - 1) : cg.blocks[b].instrs[j].op = "phi"

(***************************************************************************)
(* C18                                                                     *)
(***************************************************************************)
\* the items items[i..] run on r = [st, returned, v]; v is the value of the
\* last item that ran
RECURSIVE RefLast(_, _, _)
RefLast(items, i, r) ==
    IF i > Len(items) \/ r.returned THEN r
    ELSE LET it == items[i]
         IN CASE it.t = "Assignment" ->
                   RefLast(items, i + 1, [r EXCEPT !.st = Put(@, it.name, RefValue(it.value, r.st)),
                                                   !.v = RefValue(it.value, r.st)])
              [] it.t = "Return" ->
                   [r EXCEPT !.returned = TRUE, !.v = RefValue(it.value, r.st)]
              [] it.t \in {"Number", "Variable", "Operation"} ->
                   RefLast(items, i + 1, [r EXCEPT !.v = RefValue(it, r.st)])
              [] OTHER -> RefLast(items, i + 1, [r EXCEPT !.v = 0])

\* a program `pre; return (if c {..} else {..})`, its Conditional, and the
\* outcome of the branch that the condition selects
ReturnsConditional == source \in ValuePrograms

ReturnedConditional == Last(source[1].body.items).value

ValueOfTakenBranch ==
    LET before == SubSeq(source[1].body.items, 1, Len(source[1].body.items) - 1)
        pre == RefItems(before, 1, [st |-> EmptyMap, returned |-> FALSE, v |-> 0])
        cnd == ReturnedConditional
        taken == IF RefValue(cnd.condition, pre.st) # 0 THEN cnd.true_block ELSE cnd.false_block
    IN IF taken.t = "None" THEN 0
       ELSE RefLast(taken.items, 1, [st |-> pre.st, returned |-> FALSE, v |-> 0]).v

\* the phi of the value of the Conditional whose merge block is b
ValuePhi(b) ==
    LET i == CHOOSE j \in 1..Len(cg.blocks[b].instrs) :
                 cg.blocks[b].instrs[j].op = "phi" /\ cg.blocks[b].instrs[j].name = "merge_val"
    IN cg.blocks[b].instrs[i]

HasValuePhi(b) ==
    b <= Len(cg.blocks) /\ \E j \in 1..Len(cg.blocks[b].instrs) :
        cg.blocks[b].instrs[j].op = "phi" /\ cg.blocks[b].instrs[j].name = "merge_val"

EndsInReturn(b) == cg.blocks[b].instrs # <<>> /\ Last(cg.blocks[b].instrs).op = "ret"

\* C18: the value of a Conditional is a phi in the merge block with one edge
\* per branch whose tail block does not end in a return, so as many edges as
\* merge has predecessors; an absent false branch gives the edge (0, else);
\* when no branch reaches merge the value is the constant 0; the value is
\* that of the branch the condition selects.
C18_ConditionalValuePhi ==
    /\ CodeGenerated =>
          \A b \in MergeBlocks : HasValuePhi(b) =>
              /\ Len(ValuePhi(b).incoming) = Cardinality(Predecessors(cg, b))
              /\ IncomingBlocks(ValuePhi(b)) = Predecessors(cg, b)
              /\ \A p \in IncomingBlocks(ValuePhi(b)) : ~EndsInReturn(p)
    /\ (CodeGenerated /\ ReturnsConditional /\ HasValuePhi(4)) =>
          /\ IncomingBlocks(ValuePhi(4)) = {p \in {2, 3} : ~EndsInReturn(p)}
          /\ (ReturnedConditional.false_block.t = "None") =>
                \E j \in 1..Len(ValuePhi(4).incoming) :
                    ValuePhi(4).incoming[j] = [val |-> Const(0), block |-> 3]
          /\ \A j \in 1..Len(cg.blocks[4].instrs) :
                cg.blocks[4].instrs[j].op = "ret" =>
                    cg.blocks[4].instrs[j].val =
                        IF ValuePhi(4).incoming = <<>> THEN Const(0) ELSE Reg(ValuePhi(4).id)
    /\ (pc = "exited" /\ ReturnsConditional) => SeppoReturned(ValueOfTakenBranch)

\* one branch returns, the other reaches merge with a computed value
C18_Witness ==
    /\ pc = "exited"
    /\ ReturnsConditional
    /\ Len(ValuePhi(4).incoming) = 1
    /\ SeppoReturned(4)

(***************************************************************************)
(* C19                                                                     *)
(***************************************************************************)
\* the names bound before the Conditional of a program of ScopePrograms
BoundBefore ==
    {source[1].body.items[i].name : i \in 1..(Len(source[1].body.items) - 2)}

\* the slots allocated for `name` in block b
SlotsIn(b, name) ==
    {cg.blocks[b].instrs[i].id : i \in {j \in 1..Len(cg.blocks[b].instrs) :
        cg.blocks[b].instrs[j].op = "alloca" /\ cg.blocks[b].instrs[j].name = name}}

\* C19: the false branch is compiled in the scope the Conditional was entered
\* with: y, bound by the true branch, is not in scope in the false branch (a
\* read of it there is an undefined variable), and y assigned in both
\* branches gets a slot in each.
C19_ElseStartsFromEntryScope ==
    (CodeGenerated /\ source \in ScopePrograms) =>
        /\ \A i \in 1..Len(cg.lookups) :
              /\ cg.lookups[i].scope = BoundBefore
              /\ cg.lookups[i].name = "y" => cg.err = "Undefined variable: y"
        /\ (source[1].body.items[Len(source[1].body.items) - 1].false_block
               = Block(<<Assignment("y", Number(3))>>))
              => /\ Cardinality(SlotsIn(2, "y")) = 1
                 /\ Cardinality(SlotsIn(3, "y")) = 1
                 /\ SlotsIn(2, "y") \cap SlotsIn(3, "y") = {}

\* y is read in the false branch after the true branch bound it
C19_Witness ==
    /\ CodeGenerated
    /\ source \in ScopePrograms
    /\ cg.lookups = <<[name |-> "y", scope |-> {"x"}]>>
    /\ cg.err = "Undefined variable: y"

(***************************************************************************)
(* C20                                                                     *)
(***************************************************************************)
Slots(m) == {m[k] : k \in DOMAIN m}

\* the instruction of the store of Assignment a
StoreOf(a) == cg.blocks[a.block].instrs[a.index]

\* the value stored is a constant or an argument, or its instruction is in
\* the block of the store, before the store
ValueBeforeStore(a) ==
    a.val.k = "reg" =>
        \E j \in 1..(a.index - 1) :
            LET ins == cg.blocks[a.block].instrs[j]
            IN "id" \in DOMAIN ins /\ ins.id = a.val.n

\* Assignment a stored to the slot the name already had and left the
\* variable map as it was
ReusedSlot(a) ==
    /\ a.allocated = 0
    /\ a.after = a.before
    /\ StoreOf(a).ptr = a.before[a.name]

\* Assignment a allocated one slot, right before its store, bound the name
\* to it and left every other binding as it was
NewSlot(a) ==
    /\ a.allocated = 1
    /\ a.index > 1
    /\ LET al == cg.blocks[a.block].instrs[a.index - 1]
       IN /\ al.op = "alloca"
          /\ al.name = a.name
          /\ al.id \notin Slots(a.before)
          /\ a.after = Put(a.before, a.name, al.id)
          /\ StoreOf(a).ptr = al.id

\* C20: an Assignment to a bound name stores to the slot the name has and
\* leaves the variable map unchanged; an Assignment to an unbound name
\* allocates exactly one slot and binds the name to it; the value is computed
\* before the store, and the Assignment results in the value stored.
C20_AssignKeepsSlot ==
    \A i \in 1..Len(cg.assigns) :
        LET a == cg.assigns[i]
        IN /\ StoreOf(a).op = "store"
           /\ StoreOf(a).val = a.val
           /\ a.result = a.val
           /\ ValueBeforeStore(a)
           /\ IF a.name \in DOMAIN a.before THEN ReusedSlot(a) ELSE NewSlot(a)

\* a bound name is assigned again inside a branch of a Conditional, with a
\* value computed by an instruction, and the program runs
C20_Witness ==
    /\ pc = "exited"
    /\ \E i \in 1..Len(cg.assigns) :
          /\ cg.assigns[i].name \in DOMAIN cg.assigns[i].before
          /\ cg.assigns[i].val.k = "reg"
          /\ cg.blocks[cg.assigns[i].block].label # "entry"

(***************************************************************************)
(* C21                                                                     *)
(***************************************************************************)
\* the call of a program of CallOrderPrograms, and the names bound before it
TheCall == Last(source[2].body.items).value

BoundBeforeCall ==
    {source[2].body.items[i].name : i \in 1..(Len(source[2].body.items) - 1)}

\* the error of compiling argument a on its own in scope `scope`, "" if none
ArgumentError(a, scope) ==
    IF a.t = "Variable" /\ a.name \notin scope THEN "Undefined variable: " \o a.name
    ELSE IF a.t = "FunctionCall" /\ a.name \notin {"f", "seppo"}
         THEN "Undefined function: " \o a.name
    ELSE ""

\* the error of the first argument that does not compile, "" if all do
FirstArgumentError(args, scope) ==
    IF \E i \in 1..Len(args) : ArgumentError(args[i], scope) # ""
    THEN ArgumentError(args[CHOOSE i \in 1..Len(args) :
                                /\ ArgumentError(args[i], scope) # ""
                                /\ \A j \in 1..(i - 1) : ArgumentError(args[j], scope) = ""],
                       scope)
    ELSE ""

\* C21: the arguments of a FunctionCall are compiled, left to right, before
\* the name is looked up: the error of the first argument that does not
\* compile is the error reported, also when the name is not a function, and
\* "Undefined function" is reported only when every argument compiled.
C21_ArgumentsBeforeLookup ==
    (CodeGenerated /\ source \in CallOrderPrograms) =>
        LET ae == FirstArgumentError(TheCall.args, BoundBeforeCall)
        IN IF ae # "" THEN cg.err = ae
           ELSE (cg.err = "Undefined function: " \o TheCall.name) <=> TheCall.name = "g"

(***************************************************************************)
(* C22                                                                     *)
(***************************************************************************)
\* the Block of a program of BlockPrograms (the true branch; its code goes to
\* block 2, "then")
TheBlock == source[1].body.items[3].value.true_block

IsInThen(a) == a.block = 2

\* the items up to and including the first item that is a Return
UpToReturn(items) ==
    IF \E i \in 1..Len(items) : items[i].t = "Return"
    THEN SubSeq(items, 1, CHOOSE i \in 1..Len(items) :
                              /\ items[i].t = "Return"
                              /\ \A j \in 1..(i - 1) : items[j].t # "Return")
    ELSE items

IsAssignmentItem(it) == it.t = "Assignment"

IsReturnItem(it) == it.t = "Return"

\* the number of instructions of block b with opcode op
CountOp(b, op) ==
    Cardinality({i \in 1..Len(cg.blocks[b].instrs) : cg.blocks[b].instrs[i].op = op})

\* C22: the items of a Block are compiled in order up to and including the
\* first item that is a Return, and nothing of a later item is compiled: it
\* emits no store, no return, makes no lookup and raises no error. The value
\* of the Block is the value of the last item compiled, 0 for an empty Block.
C22_BlockStopsAfterReturn ==
    (CodeGenerated /\ source \in BlockPrograms) =>
        LET compiled == UpToReturn(TheBlock.items)
            assigned == SelectSeq(compiled, IsAssignmentItem)
            stored == SelectSeq(cg.assigns, IsInThen)
        IN /\ cg.err = ""
           /\ pc # "failed"
           /\ Len(stored) = Len(assigned)
           /\ \A i \in 1..Len(assigned) :
                 /\ stored[i].name = assigned[i].name
                 /\ i > 1 => stored[i - 1].index < stored[i].index
           /\ CountOp(2, "store") = Len(assigned)
           /\ CountOp(2, "ret") = Len(SelectSeq(compiled, IsReturnItem))
           /\ cg.calls = <<>>
           /\ \A i \in 1..Len(cg.lookups) : cg.lookups[i].name # "y"
           /\ (pc = "exited" /\ source[1].body.items[3].value.condition.n # 0) =>
                 SeppoReturned(RefLast(compiled, 1,
                                       [st |-> [k \in {"x", "z"} |-> 0],
                                        returned |-> FALSE, v |-> 0]).v)

\* a Block with an Assignment and a Return after its first Return ran
C22_Witness ==
    /\ pc = "exited"
    /\ source \in BlockPrograms
    /\ Len(TheBlock.items) = 4
    /\ Len(SelectSeq(cg.assigns, IsInThen)) = 1
    /\ SeppoReturned(1)

(***************************************************************************)
(* C23                                                                     *)
(***************************************************************************)
\* the Function inside seppo of a program of NestedPrograms was compiled to
\* completion; its entry in the history, and the statement after it
NestedDefined ==
    /\ CodeGenerated
    /\ source \in NestedPrograms
    /\ cg.defs # <<>>
    /\ cg.defs[1].name = "f"

NestedDef == cg.defs[1]

NestedTail == source[1].body.items[3]

\* the statement after the nested Function was compiled with the variable
\* map scope and the current function fn
TailCompiledIn(scope, fn) ==
    CASE NestedTail.t = "Assignment" ->
            /\ Last(cg.assigns).name = NestedTail.name
            /\ Last(cg.assigns).before = scope
       [] NestedTail.value.t = "Variable" ->
            /\ Last(cg.lookups).name = NestedTail.value.name
            /\ Last(cg.lookups).scope = DOMAIN scope
            /\ NestedTail.value.name \notin DOMAIN scope
                  => cg.err = "Undefined variable: " \o NestedTail.value.name
       [] NestedTail.value.t = "FunctionCall" ->
            /\ Last(cg.calls).name = NestedTail.value.name
            /\ Last(cg.calls).caller = fn

\* C23: a Function compiled to completion leaves the variable map (names and
\* slots) and the current function as they were before it, whatever its body
\* assigned: the statement after a Function inside seppo is compiled with the
\* x of seppo in its slot and nothing else bound, as a statement of seppo.
C23_FunctionRestoresScope ==
    /\ \A i \in 1..Len(cg.defs) :
          /\ cg.defs[i].after.variables = cg.defs[i].before.variables
          /\ cg.defs[i].after.current_function = cg.defs[i].before.current_function
    /\ NestedDefined =>
          /\ DOMAIN NestedDef.before.variables = {"x"}
          /\ NestedDef.before.current_function = get_function(cg, "seppo")
          /\ TailCompiledIn(NestedDef.before.variables, NestedDef.before.current_function)

\* a Function with parameters whose body assigns x and y, then `x = 5` in
\* seppo
C23_Witness ==
    /\ NestedDefined
    /\ Len(NestedDef.params) = 2
    /\ NestedTail.t = "Assignment"
    /\ Len(cg.assigns) = 4
    /\ cg.assigns[2].after # cg.assigns[2].before
    /\ Last(cg.assigns).after = cg.assigns[1].after

(***************************************************************************)
(* C24                                                                     *)
(***************************************************************************)
\* the position in params of the parameter that name refers to (the last one
\* of that name)
ParamIndex(params, name) ==
    CHOOSE i \in 1..Len(params) :
        /\ params[i] = name
        /\ \A j \in (i + 1)..Len(params) : params[j] # name

\* the entry block of the Function of d starts with a slot for every
\* parameter, in declaration order, each stored to from the argument at its
\* position
ParamSlotsEmitted(d) ==
    LET ins == cg.blocks[d.body.pos].instrs
    IN /\ cg.blocks[d.body.pos].label = "entry"
       /\ cg.blocks[d.body.pos].fn = d.body.current_function
       /\ cg.module[d.body.current_function].nparams = Len(d.params)
       /\ Len(ins) >= 2 * Len(d.params)
       /\ \A i \in 1..Len(d.params) :
             /\ ins[2 * i - 1].op = "alloca"
             /\ ins[2 * i - 1].name = d.params[i]
             /\ ins[2 * i - 1].id \notin Slots(d.before.variables)
             /\ ins[2 * i].op = "store"
             /\ ins[2 * i].ptr = ins[2 * i - 1].id
             /\ ins[2 * i].val = Arg(i)
             /\ \A j \in 1..Len(d.params) : j # i => ins[2 * j - 1].id # ins[2 * i - 1].id

\* the scope at the start of the body of the Function of d: the parameter
\* names and nothing else, each bound to the slot of its parameter
ParamScope(d) ==
    /\ DOMAIN d.body.variables = {d.params[i] : i \in 1..Len(d.params)}
    /\ \A name \in DOMAIN d.body.variables :
          d.body.variables[name]
             = cg.blocks[d.body.pos].instrs[2 * ParamIndex(d.params, name) - 1].id

\* the values of the parameter names of a program of ParamPrograms in the call
\* of seppo
ParamValues ==
    LET ps == source[1].params
        args == source[2].body.items[1].value.args
    IN [name \in {ps[i] : i \in 1..Len(ps)} |-> args[ParamIndex(ps, name)].n]

\* C24: the body of a Function starts in a scope of exactly the parameter
\* names, each in a new slot of its own that holds the argument at the
\* parameter's position; a name bound where the Function appears is not
\* visible in the body (a read of it is an undefined variable), and a call
\* returns what the body computes from the arguments in declaration order.
C24_BodyScopeIsParameters ==
    /\ \A i \in 1..Len(cg.defs) : ParamSlotsEmitted(cg.defs[i]) /\ ParamScope(cg.defs[i])
    /\ (CodeGenerated /\ source \in NestedPrograms
          /\ source[1].body.items[2].body.items = <<Return(Variable("x"))>>) =>
             /\ cg.lookups[1].scope
                   = {source[1].body.items[2].params[i] :
                         i \in 1..Len(source[1].body.items[2].params)}
             /\ "x" \notin cg.lookups[1].scope => cg.err = "Undefined variable: x"
    /\ (pc = "exited" /\ source \in ParamPrograms) =>
          SeppoReturned(RefValue(source[1].body.items[1].value, ParamValues))

\* f(a, b) { return a - b } called as f(5, 3) returned 2
C24_Witness ==
    /\ pc = "exited"
    /\ source \in ParamPrograms
    /\ source[1].params = <<"a", "b">>
    /\ source[1].body.items[1].value.t = "Operation"
    /\ source[2].body.items[1].value.args = <<Number(5), Number(3)>>
    /\ SeppoReturned(2)

(***************************************************************************)
(* C25                                                                     *)
(***************************************************************************)
\* the calls emitted into the body of seppo
SeppoCalls ==
    {x \in AllSites(cg) : /\ InstrAt(cg, x).op = "call"
                          /\ cg.blocks[x[1]].fn = get_function(cg, "seppo")}

\* the number of parameters the definition at the start of the foreign text
\* declares: the commas up to its closing parenthesis plus 1, 0 for `()`
DefinitionArity ==
    LET code == source[1].code
        close == Find(code, 1, ")")
    IN IF close = 5 THEN 0
       ELSE Cardinality({i \in 5..(close - 1) : code[i] = ","}) + 1

\* the module's functions whose symbol is exactly name
SymbolsNamed(name) == {i \in 1..Len(cg.module) : cg.module[i].name = name}

\* C25: when the foreign text has the definition of g followed by calls of g,
\* a call of g from seppo is a call of the one external symbol `g`, with the
\* number of parameters of the definition; the later occurrences change
\* neither.
C25_CallUsesFirstDeclaration ==
    (CodeGenerated /\ source \in RecursionPrograms) =>
        \A x \in SeppoCalls :
            /\ SymbolsNamed("g") = {InstrAt(cg, x).fn}
            /\ cg.module[InstrAt(cg, x).fn].linkage = "declare"
            /\ cg.module[InstrAt(cg, x).fn].nparams = DefinitionArity

\* g was called from seppo after a later occurrence with another number of
\* parameters had replaced the definition in the function symbol table
C25_Witness ==
    /\ CodeGenerated
    /\ source \in RecursionPrograms
    /\ \E x \in SeppoCalls :
          /\ cg.functions["g"] # InstrAt(cg, x).fn
          /\ cg.module[cg.functions["g"]].nparams # cg.module[InstrAt(cg, x).fn].nparams
          /\ Len(InstrAt(cg, x).args) = DefinitionArity

(***************************************************************************)
(* C26                                                                     *)
(***************************************************************************)
\* C26: a Function inside the body of seppo leaves the insertion point where
\* it was: the statement of seppo after it is emitted into the block of
\* seppo, which so ends in its return, and not into the block of the nested
\* Function, which keeps its one return as its last instruction.
C26_NestedFunctionKeepsInsertionPoint ==
    (NestedDefined /\ cg.err \in {"", "Module verification failed"}) =>
        /\ NestedDef.after.pos = NestedDef.before.pos
        /\ is_return(Last(cg.blocks[NestedDef.before.pos].instrs))
        /\ is_return(Last(cg.blocks[NestedDef.body.pos].instrs))
        /\ CountOp(NestedDef.body.pos, "ret") = 1
        /\ NestedTail.t = "Assignment" => Last(cg.assigns).block = NestedDef.before.pos
====
